---- MODULE Spec2Model ----
(***************************************************************************)
(* StoryTeller: schema-aware natural-language-to-SQL pipeline.             *)
(*                                                                         *)
(* DatabaseAnalyzer (src/database_analyzer.py), MetadataManager            *)
(* (src/metadata_manager.py), QueryParser (src/query_parser.py) and the    *)
(* facade EnhancedNaturalLanguageToSQL (src/enhanced_nl_sql.py) as one     *)
(* state machine.  Python strings are sequences of one-character strings,  *)
(* Python dicts are insertion-ordered sequences of <<key, value>> pairs,   *)
(* None is the empty sequence where a string or a list is expected and an  *)
(* optional integer is <<>> or <<n>>.                                      *)
(***************************************************************************)
EXTENDS Integers, Sequences, FiniteSets, TLC

(***************************************************************************)
(* Bounds of the model.                                                    *)
(***************************************************************************)
\* how many times load_and_filter_schema may run on one analyzer
MaxBuilds == 1
\* how many times load_metadata_from_json may run on one analyzer
MaxLoads == 1

(***************************************************************************)
(* Python str                                                              *)
(***************************************************************************)
LowerCase ==
  <<"a","b","c","d","e","f","g","h","i","j","k","l","m",
    "n","o","p","q","r","s","t","u","v","w","x","y","z">>
UpperCase ==
  <<"A","B","C","D","E","F","G","H","I","J","K","L","M",
    "N","O","P","Q","R","S","T","U","V","W","X","Y","Z">>
DigitChars == {"0","1","2","3","4","5","6","7","8","9"}
SpaceChars == {" ", "\t", "\n"}
LetterChars == {LowerCase[i] : i \in 1..26} \cup {UpperCase[i] : i \in 1..26}
\* the regular-expression class \w
WordChars == LetterChars \cup DigitChars \cup {"_"}
\* the regular-expression class [\w\s,]
ListChars == WordChars \cup SpaceChars \cup {","}

lower_char(c) ==
  IF \E i \in 1..26 : UpperCase[i] = c
    THEN LowerCase[CHOOSE i \in 1..26 : UpperCase[i] = c]
    ELSE c

\* str.lower()
lower(s) == [i \in 1..Len(s) |-> lower_char(s[i])]

\* s[i:].startswith(pat), 1-based
StartsAt(s, i, pat) ==
  /\ i >= 1
  /\ i + Len(pat) - 1 <= Len(s)
  /\ SubSeq(s, i, i + Len(pat) - 1) = pat

\* the Python test `sub in s` on two strings
Contains(sub, s) == \E i \in 1..(Len(s) - Len(sub) + 1) : StartsAt(s, i, sub)

\* str.endswith
EndsWith(s, suf) == StartsAt(s, Len(s) - Len(suf) + 1, suf)

\* last index of the maximal run of characters of cls that starts at i
\* (i - 1 when s[i] is not in cls or i is past the end)
RunEnd(s, i, cls) ==
  CHOOSE j \in (i - 1)..Len(s) :
    /\ \A k \in i..j : s[k] \in cls
    /\ j = Len(s) \/ s[j + 1] \notin cls

\* str.strip()
strip(s) ==
  IF \A i \in 1..Len(s) : s[i] \in SpaceChars
    THEN <<>>
    ELSE LET first == CHOOSE i \in 1..Len(s) :
                        s[i] \notin SpaceChars /\ \A k \in 1..(i - 1) : s[k] \in SpaceChars
             last == CHOOSE i \in 1..Len(s) :
                       s[i] \notin SpaceChars /\ \A k \in (i + 1)..Len(s) : s[k] \in SpaceChars
         IN SubSeq(s, first, last)

\* the pieces of s between maximal runs of characters of seps, empty pieces dropped:
\* str.split() for seps = whitespace, re.split(r'[,\s]+', s) without its empty pieces
RECURSIVE split_on(_, _, _, _)
split_on(s, seps, i, cur) ==
  IF i > Len(s)
    THEN IF cur = <<>> THEN <<>> ELSE <<cur>>
    ELSE IF s[i] \in seps
      THEN (IF cur = <<>> THEN <<>> ELSE <<cur>>) \o split_on(s, seps, i + 1, <<>>)
      ELSE split_on(s, seps, i + 1, Append(cur, s[i]))

\* str.split()
split(s) == split_on(s, SpaceChars, 1, <<>>)

\* str.split('.')
RECURSIVE split_dot(_, _, _)
split_dot(s, i, cur) ==
  IF i > Len(s)
    THEN <<cur>>
    ELSE IF s[i] = "."
      THEN <<cur>> \o split_dot(s, i + 1, <<>>)
      ELSE split_dot(s, i + 1, Append(cur, s[i]))

\* str.replace(old, new): every non-overlapping occurrence, left to right
RECURSIVE replace(_, _, _, _)
replace(s, i, old, new) ==
  IF i > Len(s)
    THEN <<>>
    ELSE IF StartsAt(s, i, old)
      THEN new \o replace(s, i + Len(old), old, new)
      ELSE <<s[i]>> \o replace(s, i + 1, old, new)

\* sep.join(parts)
RECURSIVE join(_, _)
join(sep, parts) ==
  IF parts = <<>>
    THEN <<>>
    ELSE IF Len(parts) = 1
      THEN parts[1]
      ELSE parts[1] \o sep \o join(sep, Tail(parts))

DigitSeq == <<"0","1","2","3","4","5","6","7","8","9">>

\* str(n) for an int n >= 0
RECURSIVE str_int(_)
str_int(n) ==
  IF n < 10 THEN <<DigitSeq[n + 1]>> ELSE str_int(n \div 10) \o <<DigitSeq[(n % 10) + 1]>>

digit_value(c) == (CHOOSE i \in 1..10 : DigitSeq[i] = c) - 1

\* int(s) for a string of decimal digits
RECURSIVE int_str(_)
int_str(s) ==
  IF s = <<>> THEN 0 ELSE 10 * int_str(SubSeq(s, 1, Len(s) - 1)) + digit_value(s[Len(s)])

(***************************************************************************)
(* Python dict: insertion-ordered <<key, value>> pairs, keys unique        *)
(***************************************************************************)
dict_keys(d) == [i \in 1..Len(d) |-> d[i][1]]
dict_has(d, k) == \E i \in 1..Len(d) : d[i][1] = k
dict_get(d, k) == d[CHOOSE i \in 1..Len(d) : d[i][1] = k][2]
\* d[k] = v: an existing key keeps its place
dict_put(d, k, v) ==
  IF dict_has(d, k)
    THEN [i \in 1..Len(d) |-> IF d[i][1] = k THEN <<k, v>> ELSE d[i]]
    ELSE Append(d, <<k, v>>)
(***************************************************************************)
(* The SQL Server database behind a connection: what INFORMATION_SCHEMA    *)
(* and the COUNT queries return.  Tables are in the order of the schema    *)
(* query (ORDER BY TABLE_SCHEMA, TABLE_NAME, ORDINAL_POSITION).  A column  *)
(* carries the answers of COUNT(col) and COUNT(DISTINCT col).              *)
(***************************************************************************)
Col(n, ty, nl, pos, nn, uq) ==
  [name |-> n, type |-> ty, nullable |-> nl, default |-> <<>>, position |-> pos,
   non_null |-> nn, unique |-> uq]

\* dbo.empty (0 rows), dbo.orders (5000 rows), dbo.users (1000 rows)
DbA ==
  << [schema |-> <<"d","b","o">>, name |-> <<"e","m","p","t","y">>, rows |-> 0,
      columns |-> << Col(<<"i","d">>, <<"i","n","t">>, FALSE, 1, 0, 0) >>],
     [schema |-> <<"d","b","o">>, name |-> <<"o","r","d","e","r","s">>, rows |-> 5000,
      columns |-> << Col(<<"i","d">>, <<"i","n","t">>, FALSE, 1, 5000, 5000),
                     Col(<<"u","s","e","r","_","i","d">>, <<"i","n","t">>, TRUE, 2, 4900, 900) >>],
     [schema |-> <<"d","b","o">>, name |-> <<"u","s","e","r","s">>, rows |-> 1000,
      columns |-> << Col(<<"i","d">>, <<"i","n","t">>, FALSE, 1, 1000, 1000),
                     Col(<<"n","a","m","e">>, <<"v","a","r","c","h","a","r">>, TRUE, 2, 990, 950),
                     Col(<<"S","E","L","E","C","T","E","D">>, <<"b","i","t">>, TRUE, 3, 1000, 2) >>] >>

\* Sales.Items (10000 rows), dbo.audit_log (10001 rows), dbo.users (1 row)
DbB ==
  << [schema |-> <<"S","a","l","e","s">>, name |-> <<"I","t","e","m","s">>, rows |-> 10000,
      columns |-> << Col(<<"I","t","e","m","I","D">>, <<"i","n","t">>, FALSE, 1, 10000, 10000),
                     Col(<<"p","r","i","c","e">>, <<"d","e","c","i","m","a","l">>, TRUE, 2, 0, 0) >>],
     [schema |-> <<"d","b","o">>, name |-> <<"a","u","d","i","t","_","l","o","g">>, rows |-> 10001,
      columns |-> << Col(<<"i","d">>, <<"b","i","g","i","n","t">>, FALSE, 1, 10001, 10001) >>],
     [schema |-> <<"d","b","o">>, name |-> <<"u","s","e","r","s">>, rows |-> 1,
      columns |-> << Col(<<"i","d">>, <<"i","n","t">>, FALSE, 1, 1, 1) >>] >>

Databases == {DbA, DbB}

\* the values of min_rows the callers pass
MinRows == {1, 1000, 1001}

\* The analyzers, one DatabaseAnalyzer with its MetadataManager and QueryParser each:
\* analyzer 1 is constructed with the server's credentials, analyzer 2 with the
\* empty ones of analyze_from_metadata, so its connect() fails.
Analyzers == {1, 2}
HasCredentials == {1}

\* the snapshot paths
Files == {"snapshot.json"}

VARIABLES
  connection,        \* analyzer -> <<>> (no cursor) or <<the database connected to>>
  schema_info,       \* analyzer -> dict: lower-case simple name -> table key
  table_columns,     \* analyzer -> dict: table key -> column list
  table_stats,       \* analyzer -> dict: table key -> statistics
  filtered_tables,   \* analyzer -> dict: table key -> {row_count, column_count, columns}
  database_metadata, \* analyzer -> the manager's last loaded document, <<>> if none
  files,             \* path -> <<>> (no file) or <<document>>
  builds,            \* analyzer -> the (database, min_rows) of each load_and_filter_schema
  loads,             \* analyzer -> number of load_metadata_from_json calls
  exported,          \* path -> <<>> or <<catalog of the exporting analyzer at export>>
  origin,            \* analyzer -> <<>> or <<what a fresh analyzer was loaded from>>
  call               \* the last request: who, what, and what came back

vars == <<connection, schema_info, table_columns, table_stats, filtered_tables, database_metadata,
          files, builds, loads, exported, origin, call>>

(***************************************************************************)
(* DatabaseAnalyzer                                                        *)
(***************************************************************************)
\* analyzer.connect() when pyodbc.connect succeeds
connect(a, db) ==
  /\ a \in HasCredentials
  /\ connection[a] = <<>>
  /\ connection' = [connection EXCEPT ![a] = <<db>>]
  /\ UNCHANGED <<schema_info, table_columns, table_stats, filtered_tables,
                 database_metadata, files, builds, loads, exported, origin, call>>

\* f"{schema}.{table}"
table_key_of(t) == t.schema \o <<".">> \o t.name

\* round(n / d, k) on exact values: the nearest integer to n / d, ties to even
round_div(n, d) ==
  LET q == n \div d
      r == n % d
  IN IF 2 * r < d THEN q
     ELSE IF 2 * r > d THEN q + 1
     ELSE IF q % 2 = 0 THEN q ELSE q + 1

\* The queries of a build that the server answers with an error: a set of
\* <<kind, table key, column name>>, kind "count" (the COUNT(*) of
\* get_table_row_count), "stats" (the three counts of one column) or
\* "extended" (the type-specific query of one column); <<>> stands for no column.
NoFaults == {}
count_query(t) == <<"count", table_key_of(t), <<>>>>
sample_query(t) == <<"sample", table_key_of(t), <<>>>>
stats_query(t, c) == <<"stats", table_key_of(t), c.name>>
extended_query(t, c) == <<"extended", table_key_of(t), c.name>>

\* a count that lets the failure of its query pass unnoticed
get_table_row_count_unguarded(t, faults) == t.rows

\* The count query answers with the table's rows; its failure is caught and
\* answered with 0.
get_table_row_count(t, faults) == IF count_query(t) \in faults THEN 0 ELSE t.rows

\* SELECT TOP n *: the first rows of the table, as row numbers
get_table_sample_data(t, sample_size) ==
  [i \in 1..(IF t.rows < sample_size THEN t.rows ELSE sample_size) |-> i]

\* the column dicts load_and_filter_schema groups under a table key
column_info(t) ==
  [i \in 1..Len(t.columns) |->
     [name |-> t.columns[i].name, type |-> t.columns[i].type,
      nullable |-> t.columns[i].nullable, default |-> t.columns[i].default,
      position |-> t.columns[i].position]]

StringTypes == {<<"v","a","r","c","h","a","r">>, <<"n","v","a","r","c","h","a","r">>, <<"t","e","x","t">>, <<"n","t","e","x","t">>}
NumericTypes == {<<"i","n","t">>, <<"b","i","g","i","n","t">>, <<"s","m","a","l","l","i","n","t">>, <<"t","i","n","y","i","n","t">>, <<"d","e","c","i","m","a","l">>, <<"n","u","m","e","r","i","c">>,
                 <<"f","l","o","a","t">>, <<"r","e","a","l">>}
DateTypes == {<<"d","a","t","e","t","i","m","e">>, <<"d","a","t","e">>, <<"t","i","m","e","s","t","a","m","p">>}

\* which type-specific statistics _analyze_column_by_type adds to a column's record
_analyze_column_by_type(col_type, non_null_count) ==
  IF col_type \in StringTypes /\ non_null_count > 0 THEN "length"
  ELSE IF col_type \in NumericTypes /\ non_null_count > 0 THEN "value"
  ELSE IF col_type \in DateTypes /\ non_null_count > 0 THEN "date"
  ELSE "none"

\* one column's record; null_percentage in 1/100 percent, uniqueness_ratio in 1/10000
column_stats(t, c) ==
  LET total == t.rows
      non_null == c.non_null
      unique == c.unique
  IN [type |-> c.type,
      total_count |-> total,
      non_null_count |-> non_null,
      unique_count |-> unique,
      null_percentage |-> IF total > 0 THEN round_div((total - non_null) * 10000, total) ELSE 0,
      uniqueness_ratio |-> IF non_null > 0 THEN round_div(unique * 10000, non_null) ELSE 0,
      extended |-> _analyze_column_by_type(c.type, non_null)]

\* one pass of the loop body for a column whose counts were answered: the
\* record is stored, then the type-specific query, if the type has one, is
\* issued; when that fails the record stays without the type-specific part
with_column(t, c, kind, out, faults) ==
  [analysis |->
     dict_put(out.analysis, c.name,
              [column_stats(t, c) EXCEPT
                 !.extended = IF extended_query(t, c) \in faults THEN "none" ELSE kind]),
   queries |->
     out.queries \o <<stats_query(t, c)>>
       \o (IF kind = "none" THEN <<>> ELSE <<extended_query(t, c)>>)]

\* dict: column name -> record, in column order, and the queries issued.  The
\* try of analyze_column_data encloses the whole loop: a failing counts query
\* ends the loop, the records stored so far are returned.
RECURSIVE analyze_columns_from(_, _, _, _)
analyze_columns_from(t, i, out, faults) ==
  IF i > Len(t.columns)
    THEN out
    ELSE IF stats_query(t, t.columns[i]) \in faults
      THEN [out EXCEPT !.queries = Append(@, stats_query(t, t.columns[i]))]
      ELSE analyze_columns_from(t, i + 1,
             with_column(t, t.columns[i],
                         _analyze_column_by_type(t.columns[i].type, t.columns[i].non_null),
                         out, faults),
             faults)

analyze_column_data(t, faults) ==
  analyze_columns_from(t, 1, [analysis |-> <<>>, queries |-> <<>>], faults)

\* analyze_column_data of the single-class copy: the type-specific queries are
\* issued inside the try that encloses the loop, so a failing one ends the loop
\* as a failing counts query does, after the column's record is stored
RECURSIVE analyze_columns_from_monolith(_, _, _, _)
analyze_columns_from_monolith(t, i, out, faults) ==
  IF i > Len(t.columns)
    THEN out
    ELSE IF stats_query(t, t.columns[i]) \in faults
      THEN [out EXCEPT !.queries = Append(@, stats_query(t, t.columns[i]))]
      ELSE IF /\ _analyze_column_by_type(t.columns[i].type, t.columns[i].non_null) # "none"
              /\ extended_query(t, t.columns[i]) \in faults
        THEN with_column(t, t.columns[i],
                         _analyze_column_by_type(t.columns[i].type, t.columns[i].non_null),
                         out, faults)
        ELSE analyze_columns_from_monolith(t, i + 1,
               with_column(t, t.columns[i],
                           _analyze_column_by_type(t.columns[i].type, t.columns[i].non_null),
                           out, faults),
               faults)

analyze_column_data_monolith(t, faults) ==
  analyze_columns_from_monolith(t, 1, [analysis |-> <<>>, queries |-> <<>>], faults)

\* full-analysis ceiling of _filter_and_analyze_tables
MAX_ANALYSIS_ROWS == 10000

\* the threshold test with > in place of >=: it would drop a table of exactly
\* min_rows rows
keeps_table_above(row_count, min_rows) == row_count > min_rows

\* the test that keeps a table
keeps_table(row_count, min_rows) == row_count >= min_rows

\* the ceiling test with < in place of <=: a table of exactly 10000 rows would
\* not be profiled
analyzes_table_below(row_count) == row_count < MAX_ANALYSIS_ROWS

\* the test that sends a kept table to analyze_column_data
analyzes_table(row_count) == row_count <= MAX_ANALYSIS_ROWS

\* the grouping loop of load_and_filter_schema: schema_info gets every table
RECURSIVE group_tables(_, _, _)
group_tables(db, i, si) ==
  IF i > Len(db)
    THEN si
    ELSE group_tables(db, i + 1, dict_put(si, lower(db[i].name), table_key_of(db[i])))

\* what _filter_and_analyze_tables stores for a kept table
keep_table(t, key, row_count, columns, profile, cat) ==
  [table_columns |-> dict_put(cat.table_columns, key, columns),
   filtered_tables |->
     dict_put(cat.filtered_tables, key,
              [row_count |-> row_count, column_count |-> Len(columns),
               columns |-> columns]),
   table_stats |->
     dict_put(cat.table_stats, key,
              [row_count |-> row_count, column_count |-> Len(columns),
               sample_data |-> get_table_sample_data(t, 3),
               column_analysis |-> profile.analysis]),
   queries |-> cat.queries \o <<count_query(t), sample_query(t)>> \o profile.queries]

\* one pass of the loop of _filter_and_analyze_tables
filter_table(t, row_count, min_rows, faults, cat) ==
  IF keeps_table(row_count, min_rows)
    THEN keep_table(t, table_key_of(t), row_count, column_info(t),
                    IF analyzes_table(row_count)
                      THEN analyze_column_data(t, faults)
                      ELSE [analysis |-> <<>>, queries |-> <<>>],
                    cat)
    ELSE [cat EXCEPT !.queries = Append(@, count_query(t))]

\* _filter_and_analyze_tables: the three catalog dicts after tables i.. of db,
\* and the queries sent to the server
RECURSIVE _filter_and_analyze_tables(_, _, _, _, _)
_filter_and_analyze_tables(db, i, min_rows, faults, cat) ==
  IF i > Len(db)
    THEN cat
    ELSE _filter_and_analyze_tables(db, i + 1, min_rows, faults,
           filter_table(db[i], get_table_row_count(db[i], faults), min_rows, faults, cat))

\* the catalog of analyzer a after _filter_and_analyze_tables on its connection
filtered_catalog(a, min_rows, faults) ==
  _filter_and_analyze_tables(connection[a][1], 1, min_rows, faults,
    [table_columns |-> table_columns[a],
     filtered_tables |-> filtered_tables[a],
     table_stats |-> table_stats[a],
     queries |-> <<>>])

\* what load_and_filter_schema stores: schema_info from the grouping loop, the
\* rest from _filter_and_analyze_tables
build_catalog(a, min_rows, cat) ==
  /\ schema_info' = [schema_info EXCEPT ![a] = group_tables(connection[a][1], 1, @)]
  /\ table_columns' = [table_columns EXCEPT ![a] = cat.table_columns]
  /\ filtered_tables' = [filtered_tables EXCEPT ![a] = cat.filtered_tables]
  /\ table_stats' = [table_stats EXCEPT ![a] = cat.table_stats]
  /\ builds' = [builds EXCEPT ![a] =
                  Append(@, [db |-> connection[a][1], min_rows |-> min_rows])]
  /\ origin' = [origin EXCEPT ![a] = <<>>]
  /\ UNCHANGED <<connection, database_metadata, files, loads, exported>>

\* analyzer.load_and_filter_schema(min_rows) when every query is answered;
\* without a cursor the schema query raises before anything is stored
load_and_filter_schema(a, min_rows) ==
  /\ connection[a] # <<>>
  /\ Len(builds[a]) < MaxBuilds
  /\ \E cat \in {filtered_catalog(a, min_rows, NoFaults)} :
       build_catalog(a, min_rows, cat)
  /\ UNCHANGED call

\* analyzer.load_and_filter_schema(min_rows) when the server fails the queries
\* in faults; call keeps what the build sent to the server
load_and_filter_schema_failing(a, min_rows, faults) ==
  /\ connection[a] # <<>>
  /\ Len(builds[a]) < MaxBuilds
  /\ \E cat \in {filtered_catalog(a, min_rows, faults)} :
       /\ build_catalog(a, min_rows, cat)
       /\ call' = [op |-> "load_and_filter_schema", analyzer |-> a,
                   db |-> connection[a][1], min_rows |-> min_rows,
                   faults |-> faults, queries |-> cat.queries]
(***************************************************************************)
(* MetadataManager                                                         *)
(***************************************************************************)
\* sum of f over 1..n
RECURSIVE sum_to(_, _)
sum_to(f, n) == IF n = 0 THEN 0 ELSE f[n] + sum_to(f, n - 1)

\* col_score of one column, in 1/100000
col_score(col_stats) ==
  LET null_score == IF 10000 - col_stats.null_percentage > 0
                      THEN 10000 - col_stats.null_percentage ELSE 0
      uniqueness_score == IF col_stats.uniqueness_ratio < 10000
                            THEN col_stats.uniqueness_ratio ELSE 10000
      data_presence_score == IF col_stats.non_null_count > 0 THEN 10000 ELSE 0
  IN null_score * 5 + uniqueness_score * 3 + data_presence_score * 2

\* manager.calculate_data_quality_score(table_key), in 1/1000
calculate_data_quality_score(a, table_key) ==
  IF ~dict_has(table_stats[a], table_key)
    THEN 0
    ELSE
      LET column_analysis == dict_get(table_stats[a], table_key).column_analysis
          scores == [i \in 1..Len(column_analysis) |-> col_score(column_analysis[i][2])]
      IN IF column_analysis = <<>>
           THEN 500
           ELSE round_div(sum_to(scores, Len(scores)), Len(scores) * 100)

PK_VALID_TYPES == {<<"i","n","t">>, <<"b","i","g","i","n","t">>, <<"u","n","i","q","u","e","i","d","e","n","t","i","f","i","e","r">>, <<"v","a","r","c","h","a","r">>, <<"n","v","a","r","c","h","a","r">>}

\* the test with > in place of >=: it would leave out a column of ratio 0.95
is_primary_key_candidate_above(col_stats) ==
  /\ col_stats.uniqueness_ratio > 9500
  /\ col_stats.null_percentage < 500
  /\ lower(col_stats.type) \in PK_VALID_TYPES

is_primary_key_candidate(col_stats) ==
  /\ col_stats.uniqueness_ratio >= 9500
  /\ col_stats.null_percentage < 500
  /\ lower(col_stats.type) \in PK_VALID_TYPES

\* the elements of seq that satisfy keep[i], in order
RECURSIVE select_from(_, _, _)
select_from(seq, keep, i) ==
  IF i > Len(seq)
    THEN <<>>
    ELSE (IF keep[i] THEN <<seq[i]>> ELSE <<>>) \o select_from(seq, keep, i + 1)

\* manager.identify_primary_key_candidates(table_key)
identify_primary_key_candidates(a, table_key) ==
  IF ~dict_has(table_stats[a], table_key)
    THEN <<>>
    ELSE
      LET column_analysis == dict_get(table_stats[a], table_key).column_analysis
      IN select_from(dict_keys(column_analysis),
                     [i \in 1..Len(column_analysis) |->
                        is_primary_key_candidate(column_analysis[i][2])], 1)

\* t.lower().split('.')[-1]
simple_name(table_key) ==
  LET parts == split_dot(lower(table_key), 1, <<>>) IN parts[Len(parts)]

\* the test without the exclusion of id and rowid
is_foreign_key_column_any(col_name, col_stats) ==
  /\ lower(col_stats.type) \in {<<"i","n","t">>, <<"b","i","g","i","n","t">>}
  /\ EndsWith(lower(col_name), <<"i","d">>)

is_foreign_key_column(col_name, col_stats) ==
  /\ lower(col_stats.type) \in {<<"i","n","t">>, <<"b","i","g","i","n","t">>}
  /\ EndsWith(lower(col_name), <<"i","d">>)
  /\ lower(col_name) \notin {<<"i","d">>, <<"r","o","w","i","d">>}

\* col_name.lower().replace('_id', '').replace('id', '')
potential_table(col_name) ==
  replace(replace(lower(col_name), 1, <<"_","i","d">>, <<>>), 1, <<"i","d">>, <<>>)

\* the keys of filtered_tables whose simple name contains the stem, in dict order
matching_tables(a, stem) ==
  LET keys == dict_keys(filtered_tables[a])
  IN select_from(keys, [i \in 1..Len(keys) |-> Contains(stem, simple_name(keys[i]))], 1)

\* manager.identify_foreign_key_candidates(table_key)
identify_foreign_key_candidates(a, table_key) ==
  IF ~dict_has(table_stats[a], table_key)
    THEN <<>>
    ELSE
      LET column_analysis == dict_get(table_stats[a], table_key).column_analysis
          entry(i) ==
            LET m == matching_tables(a, potential_table(column_analysis[i][1]))
            IN [column |-> column_analysis[i][1],
                potential_references |-> SubSeq(m, 1, IF Len(m) < 3 THEN Len(m) ELSE 3)]
          n == Len(column_analysis)
      IN select_from([i \in 1..n |-> entry(i)],
                     [i \in 1..n |->
                        /\ is_foreign_key_column(column_analysis[i][1], column_analysis[i][2])
                        /\ matching_tables(a, potential_table(column_analysis[i][1])) # <<>>],
                     1)

\* sum(stats['row_count'] for stats in table_stats.values())
total_rows_of(stats) == sum_to([i \in 1..Len(stats) |-> stats[i][2].row_count], Len(stats))

\* table_stats.get(table_key, {}).get(field, default)
stats_sample_data(a, table_key) ==
  IF dict_has(table_stats[a], table_key)
    THEN dict_get(table_stats[a], table_key).sample_data ELSE <<>>
stats_column_analysis(a, table_key) ==
  IF dict_has(table_stats[a], table_key)
    THEN dict_get(table_stats[a], table_key).column_analysis ELSE <<>>

\* the entry of one table in the metadata dict of export_database_metadata
export_table(a, table_key, table_info) ==
  LET parts == split_dot(table_key, 1, <<>>)
  IN [table_name |-> parts[Len(parts)],
      schema |-> parts[1],
      row_count |-> table_info.row_count,
      column_count |-> table_info.column_count,
      columns |-> [i \in 1..Len(table_info.columns) |->
                     [name |-> table_info.columns[i].name,
                      type |-> table_info.columns[i].type,
                      nullable |-> table_info.columns[i].nullable,
                      position |-> table_info.columns[i].position]],
      sample_data |-> stats_sample_data(a, table_key),
      column_analysis |-> stats_column_analysis(a, table_key),
      statistics |->
        [data_quality_score |-> calculate_data_quality_score(a, table_key),
         primary_key_candidates |-> identify_primary_key_candidates(a, table_key),
         foreign_key_candidates |-> identify_foreign_key_candidates(a, table_key)]]

\* the metadata dict (server, database and export_timestamp left out: they
\* name the connection and the clock)
export_metadata(a) ==
  [database_info |->
     [total_tables |-> Len(filtered_tables[a]),
      total_rows |-> total_rows_of(table_stats[a])],
   tables |->
     [i \in 1..Len(filtered_tables[a]) |->
        <<filtered_tables[a][i][1],
          export_table(a, filtered_tables[a][i][1], filtered_tables[a][i][2])>>]]

(***************************************************************************)
(* json.dump / json.load: a document is the tree of the dict with every    *)
(* scalar turned into a JSON token; dicts with fixed keys are records,     *)
(* dicts keyed by names are pair sequences, lists are sequences.           *)
(***************************************************************************)
JNum(n) == [t |-> "number", v |-> n]
JStr(s) == [t |-> "string", v |-> s]
JBool(b) == [t |-> "bool", v |-> b]
json_value(j) == j.v

map_seq(seq, F(_)) == [i \in 1..Len(seq) |-> F(seq[i])]
map_dict(d, F(_)) == [i \in 1..Len(d) |-> <<d[i][1], F(d[i][2])>>]

dump_column(col) ==
  [name |-> JStr(col.name), type |-> JStr(col.type),
   nullable |-> JBool(col.nullable), position |-> JNum(col.position)]
dump_col_stats(s) ==
  [type |-> JStr(s.type), total_count |-> JNum(s.total_count),
   non_null_count |-> JNum(s.non_null_count), unique_count |-> JNum(s.unique_count),
   null_percentage |-> JNum(s.null_percentage),
   uniqueness_ratio |-> JNum(s.uniqueness_ratio), extended |-> JStr(s.extended)]
dump_fk(c) ==
  [column |-> JStr(c.column), potential_references |-> map_seq(c.potential_references, JStr)]
dump_table(e) ==
  [table_name |-> JStr(e.table_name), schema |-> JStr(e.schema),
   row_count |-> JNum(e.row_count), column_count |-> JNum(e.column_count),
   columns |-> map_seq(e.columns, dump_column),
   sample_data |-> map_seq(e.sample_data, JNum),
   column_analysis |-> map_dict(e.column_analysis, dump_col_stats),
   statistics |->
     [data_quality_score |-> JNum(e.statistics.data_quality_score),
      primary_key_candidates |-> map_seq(e.statistics.primary_key_candidates, JStr),
      foreign_key_candidates |-> map_seq(e.statistics.foreign_key_candidates, dump_fk)]]
\* json.dump(metadata, f)
json_dump(metadata) ==
  [database_info |->
     [total_tables |-> JNum(metadata.database_info.total_tables),
      total_rows |-> JNum(metadata.database_info.total_rows)],
   tables |-> map_dict(metadata.tables, dump_table)]

\* a reader that takes a column's type from its name field
load_column_mistyped(j) ==
  [name |-> json_value(j.name), type |-> json_value(j.name),
   nullable |-> json_value(j.nullable), position |-> json_value(j.position)]

load_column(j) ==
  [name |-> json_value(j.name), type |-> json_value(j.type),
   nullable |-> json_value(j.nullable), position |-> json_value(j.position)]
load_col_stats(j) ==
  [type |-> json_value(j.type), total_count |-> json_value(j.total_count),
   non_null_count |-> json_value(j.non_null_count),
   unique_count |-> json_value(j.unique_count),
   null_percentage |-> json_value(j.null_percentage),
   uniqueness_ratio |-> json_value(j.uniqueness_ratio),
   extended |-> json_value(j.extended)]
load_fk(j) ==
  [column |-> json_value(j.column),
   potential_references |-> map_seq(j.potential_references, json_value)]
load_table(j) ==
  [table_name |-> json_value(j.table_name), schema |-> json_value(j.schema),
   row_count |-> json_value(j.row_count), column_count |-> json_value(j.column_count),
   columns |-> map_seq(j.columns, load_column),
   sample_data |-> map_seq(j.sample_data, json_value),
   column_analysis |-> map_dict(j.column_analysis, load_col_stats),
   statistics |->
     [data_quality_score |-> json_value(j.statistics.data_quality_score),
      primary_key_candidates |-> map_seq(j.statistics.primary_key_candidates, json_value),
      foreign_key_candidates |-> map_seq(j.statistics.foreign_key_candidates, load_fk)]]
\* json.load(f)
json_load(doc) ==
  [database_info |->
     [total_tables |-> json_value(doc.database_info.total_tables),
      total_rows |-> json_value(doc.database_info.total_rows)],
   tables |-> map_dict(doc.tables, load_table)]

\* manager.export_database_metadata(filename)
export_database_metadata(a, filename) ==
  /\ files' = [files EXCEPT ![filename] = <<json_dump(export_metadata(a))>>]
  /\ exported' = [exported EXCEPT ![filename] =
                    <<[by |-> a, builds |-> builds[a],
                       filtered_tables |-> filtered_tables[a],
                       table_columns |-> table_columns[a]]>>]
  /\ UNCHANGED <<connection, schema_info, table_columns, table_stats, filtered_tables,
                 database_metadata, builds, loads, origin, call>>

\* What a write that fails after open(filename, 'w') leaves at the path: the
\* text of the document up to the failure.  The text is cut inside the tables
\* section, after n of its entries; the closing brackets are never written.
truncated_document(doc, n) ==
  [truncated |-> [database_info |-> doc.database_info, tables |-> SubSeq(doc.tables, 1, n)]]

\* whether json.load accepts the text
parses(text) == "truncated" \notin DOMAIN text

\* whether open(filename, 'r') and json.load succeed
readable(filename) == files[filename] # <<>> /\ parses(files[filename][1])

\* the fields of a table entry that load_metadata_from_json reads
EntryFields == {"row_count", "column_count", "columns", "table_name"}

\* A snapshot that is valid JSON but whose k-th table entry lacks a field (a
\* file written by hand or by another tool): the document, with the entry and
\* the field that are to be taken as absent
incomplete_document(doc, k, field) ==
  [database_info |-> doc.database_info, tables |-> doc.tables,
   missing |-> [entry |-> k, field |-> field]]

\* whether every table entry of the text has the fields the load reads
complete(text) == "missing" \notin DOMAIN text

\* manager.export_database_metadata(filename) when open() raises: None is
\* returned, the path is as before
export_fails_at_open(a, filename) ==
  /\ call' = [op |-> "export_database_metadata", analyzer |-> a, filename |-> filename,
              returned |-> <<>>, before |-> files[filename]]
  /\ UNCHANGED <<connection, schema_info, table_columns, table_stats, filtered_tables,
                 database_metadata, files, builds, loads, exported, origin>>

\* manager.export_database_metadata(filename) when json.dump raises after n
\* table entries: the with block closes the file on what was written, None is
\* returned
export_fails_at_write(a, filename, n) ==
  /\ n <= Len(filtered_tables[a])
  /\ files' = [files EXCEPT ![filename] =
                 <<truncated_document(json_dump(export_metadata(a)), n)>>]
  /\ exported' = [exported EXCEPT ![filename] = <<>>]
  /\ call' = [op |-> "export_database_metadata", analyzer |-> a, filename |-> filename,
              returned |-> <<>>, before |-> files[filename]]
  /\ UNCHANGED <<connection, schema_info, table_columns, table_stats, filtered_tables,
                 database_metadata, builds, loads, origin>>

\* the loop of load_metadata_from_json over metadata['tables'].items()
RECURSIVE load_tables(_, _, _)
load_tables(tables, i, cat) ==
  IF i > Len(tables)
    THEN cat
    ELSE
      LET table_key == tables[i][1]
          table_info == tables[i][2]
      IN load_tables(tables, i + 1,
           [filtered_tables |->
              dict_put(cat.filtered_tables, table_key,
                       [row_count |-> table_info.row_count,
                        column_count |-> table_info.column_count,
                        columns |-> table_info.columns]),
            table_columns |-> dict_put(cat.table_columns, table_key, table_info.columns),
            schema_info |-> dict_put(cat.schema_info, lower(table_info.table_name), table_key)])

\* whether the analyzer is as DatabaseAnalyzer.__init__ left it
is_fresh(a) ==
  /\ schema_info[a] = <<>>
  /\ table_columns[a] = <<>>
  /\ table_stats[a] = <<>>
  /\ filtered_tables[a] = <<>>

\* manager.load_metadata_from_json(filename) when the file opens and parses
load_metadata_from_json(a, filename) ==
  LET metadata == json_load(files[filename][1])
      cat == load_tables(metadata.tables, 1,
               [filtered_tables |-> filtered_tables[a],
                table_columns |-> table_columns[a],
                schema_info |-> schema_info[a]])
  IN /\ loads[a] < MaxLoads
     /\ readable(filename)
     /\ complete(files[filename][1])
     /\ database_metadata' = [database_metadata EXCEPT ![a] = <<metadata>>]
     /\ filtered_tables' = [filtered_tables EXCEPT ![a] = cat.filtered_tables]
     /\ table_columns' = [table_columns EXCEPT ![a] = cat.table_columns]
     /\ schema_info' = [schema_info EXCEPT ![a] = cat.schema_info]
     /\ loads' = [loads EXCEPT ![a] = @ + 1]
     /\ origin' = [origin EXCEPT ![a] =
                     IF is_fresh(a)
                       THEN <<[catalog |-> exported[filename][1], metadata |-> metadata]>>
                       ELSE <<>>]
     /\ UNCHANGED <<connection, table_stats, files, builds, exported, call>>

\* manager.load_metadata_from_json(filename) when open() or json.load raises:
\* returns False
load_metadata_missing_file(a, filename) ==
  /\ loads[a] < MaxLoads
  /\ ~readable(filename)
  /\ loads' = [loads EXCEPT ![a] = @ + 1]
  /\ UNCHANGED <<connection, schema_info, table_columns, table_stats, filtered_tables,
                 database_metadata, files, builds, exported, origin, call>>

\* the catalog when the loop raises KeyError in the k-th entry: the entries
\* before it are merged; the k-th is written to filtered_tables and
\* table_columns when only table_name, which is read last, is absent
load_tables_until(tables, k, field, cat) ==
  LET merged == load_tables(SubSeq(tables, 1, k - 1), 1, cat)
      table_key == tables[k][1]
      table_info == tables[k][2]
  IN IF field = "table_name"
       THEN [filtered_tables |->
               dict_put(merged.filtered_tables, table_key,
                        [row_count |-> table_info.row_count,
                         column_count |-> table_info.column_count,
                         columns |-> table_info.columns]),
             table_columns |-> dict_put(merged.table_columns, table_key, table_info.columns),
             schema_info |-> merged.schema_info]
       ELSE merged

\* manager.load_metadata_from_json(filename) when the file parses and a table
\* entry lacks a field: the loop raises KeyError, the handler returns False
load_metadata_incomplete(a, filename) ==
  /\ loads[a] < MaxLoads
  /\ readable(filename)
  /\ ~complete(files[filename][1])
  /\ \E text \in {files[filename][1]} :
       \E cat \in {load_tables_until(json_load(text).tables, text.missing.entry,
                                     text.missing.field,
                                     [filtered_tables |-> filtered_tables[a],
                                      table_columns |-> table_columns[a],
                                      schema_info |-> schema_info[a]])} :
         /\ database_metadata' =
              [database_metadata EXCEPT
                 ![a] = <<incomplete_document(json_load(text), text.missing.entry,
                                              text.missing.field)>>]
         /\ filtered_tables' = [filtered_tables EXCEPT ![a] = cat.filtered_tables]
         /\ table_columns' = [table_columns EXCEPT ![a] = cat.table_columns]
         /\ schema_info' = [schema_info EXCEPT ![a] = cat.schema_info]
  /\ loads' = [loads EXCEPT ![a] = @ + 1]
  /\ origin' = [origin EXCEPT ![a] = <<>>]
  /\ call' = [op |-> "load_metadata_from_json", analyzer |-> a, filename |-> filename,
              returned |-> FALSE,
              before |-> [filtered_tables |-> filtered_tables[a],
                          table_columns |-> table_columns[a],
                          schema_info |-> schema_info[a]]]
  /\ UNCHANGED <<connection, table_stats, files, builds, exported>>
(***************************************************************************)
(* QueryParser                                                             *)
(***************************************************************************)
\* A parser belongs to an analyzer; parser 0 is QueryParser(None).
Parsers == Analyzers \cup {0}
has_analyzer(p) == p \in Analyzers

\* least element of a non-empty set of integers
least(S) == CHOOSE i \in S : \A j \in S : i <= j
\* greatest element of a non-empty set of integers
greatest(S) == CHOOSE i \in S : \A j \in S : i >= j

\* any(word in text for word in words)
any_in(words, text) == \E i \in 1..Len(words) : Contains(words[i], text)

CountKeywords == <<<<"c","o","u","n","t">>, <<"h","o","w"," ","m","a","n","y">>, <<"t","o","t","a","l"," ","n","u","m","b","e","r">>>>
AverageKeywords == <<<<"a","v","e","r","a","g","e">>, <<"m","e","a","n">>, <<"a","v","g">>>>
SumKeywords == <<<<"s","u","m">>, <<"t","o","t","a","l">>>>
RetrievalKeywords == <<<<"s","h","o","w">>, <<"l","i","s","t">>, <<"d","i","s","p","l","a","y">>, <<"g","e","t">>>>
FilterKeywords == <<<<"f","i","n","d">>, <<"s","e","a","r","c","h">>, <<"w","h","e","r","e">>>>
ComplexityWords == <<<<"w","h","e","r","e">>, <<"a","n","d">>, <<"o","r">>, <<"j","o","i","n">>, <<"g","r","o","u","p">>, <<"o","r","d","e","r">>, <<"h","a","v","i","n","g">>>>

\* the chain with the sum keywords tested before the count keywords
classify_sum_first(query_lower) ==
  IF any_in(SumKeywords, query_lower)
    THEN [query_type |-> "aggregation", query_intent |-> <<"sum_values">>]
  ELSE IF any_in(CountKeywords, query_lower)
    THEN [query_type |-> "aggregation", query_intent |-> <<"count_records">>]
  ELSE IF any_in(AverageKeywords, query_lower)
    THEN [query_type |-> "aggregation", query_intent |-> <<"calculate_average">>]
  ELSE IF any_in(RetrievalKeywords, query_lower)
    THEN [query_type |-> "retrieval", query_intent |-> <<"retrieve_data">>]
  ELSE IF any_in(FilterKeywords, query_lower)
    THEN [query_type |-> "filtered_retrieval", query_intent |-> <<"search_data">>]
  ELSE [query_type |-> "unknown", query_intent |-> <<>>]

\* the if/elif chain that sets query_type and query_intent
classify(query_lower) ==
  IF any_in(CountKeywords, query_lower)
    THEN [query_type |-> "aggregation", query_intent |-> <<"count_records">>]
  ELSE IF any_in(AverageKeywords, query_lower)
    THEN [query_type |-> "aggregation", query_intent |-> <<"calculate_average">>]
  ELSE IF any_in(SumKeywords, query_lower)
    THEN [query_type |-> "aggregation", query_intent |-> <<"sum_values">>]
  ELSE IF any_in(RetrievalKeywords, query_lower)
    THEN [query_type |-> "retrieval", query_intent |-> <<"retrieve_data">>]
  ELSE IF any_in(FilterKeywords, query_lower)
    THEN [query_type |-> "filtered_retrieval", query_intent |-> <<"search_data">>]
  ELSE [query_type |-> "unknown", query_intent |-> <<>>]

complexity_of(query_lower) ==
  LET complexity_indicators ==
        Cardinality({i \in 1..Len(ComplexityWords) : Contains(ComplexityWords[i], query_lower)})
  IN IF complexity_indicators >= 3 THEN "complex"
     ELSE IF complexity_indicators >= 1 THEN "moderate"
     ELSE "simple"

\* the suggestions drawn from every table of the schema query, retained or not
suggested_set_of_schema(p, query_lower) ==
  IF ~has_analyzer(p)
    THEN {}
    ELSE
      LET keywords == split(query_lower)
          si == schema_info[p]
      IN {si[i][2] : i \in {i \in 1..Len(si) :
                             \E k \in 1..Len(keywords) : Contains(keywords[k], si[i][1])}}

\* set(suggested_tables): the table keys some keyword of the query occurs in
suggested_set(p, query_lower) ==
  IF ~has_analyzer(p)
    THEN {}
    ELSE
      LET keywords == split(query_lower)
          keys == dict_keys(filtered_tables[p])
      IN {keys[i] : i \in {i \in 1..Len(keys) :
                             \E k \in 1..Len(keywords) :
                               Contains(keywords[k], simple_name(keys[i]))}}

\* cap of list(set(...))[:5]
MAX_SUGGESTED_TABLES == 5

\* list(set(...))[:5]: a set has no order the code controls, so every order of
\* every selection of up to five elements is a possible outcome
suggestion_lists(S) ==
  LET n == IF Cardinality(S) < MAX_SUGGESTED_TABLES THEN Cardinality(S)
           ELSE MAX_SUGGESTED_TABLES
  IN {l \in [1..n -> S] : \A i, j \in 1..n : i # j => l[i] # l[j]}

\* parser.analyze_user_query_context(natural_query), with the order the set came out in
analyze_user_query_context(p, natural_query, suggested) ==
  LET query_lower == lower(natural_query)
      c == classify(query_lower)
  IN [query_type |-> c.query_type,
      complexity |-> complexity_of(query_lower),
      suggested_tables |-> suggested,
      suggested_columns |-> <<>>,
      query_intent |-> c.query_intent,
      data_requirements |-> <<>>]

\* a lookup that takes the first table in catalog order that matches exactly
\* or partially
find_table_by_name_in_order(p, table_hint) ==
  IF ~has_analyzer(p)
    THEN <<>>
    ELSE
      LET hint == strip(lower(table_hint))
          si == schema_info[p]
          partial == {i \in 1..Len(si) : Contains(hint, si[i][1]) \/ Contains(si[i][1], hint)}
          words == split(hint)
          keyword == {i \in 1..Len(si) : \E w \in 1..Len(words) : Contains(words[w], si[i][1])}
      IN IF partial # {} THEN si[least(partial)][2]
         ELSE IF keyword # {} THEN si[least(keyword)][2]
         ELSE <<>>

\* parser.find_table_by_name(table_hint); <<>> is None
find_table_by_name(p, table_hint) ==
  IF ~has_analyzer(p)
    THEN <<>>
    ELSE
      LET hint == strip(lower(table_hint))
          si == schema_info[p]
          partial == {i \in 1..Len(si) : Contains(hint, si[i][1]) \/ Contains(si[i][1], hint)}
          words == split(hint)
          keyword == {i \in 1..Len(si) : \E w \in 1..Len(words) : Contains(words[w], si[i][1])}
      IN IF dict_has(si, hint) THEN dict_get(si, hint)
         ELSE IF partial # {} THEN si[least(partial)][2]
         ELSE IF keyword # {} THEN si[least(keyword)][2]
         ELSE <<>>

\* a lookup that takes the first column in order that matches exactly or partially
find_column_in_order(columns, column_hint) ==
  LET hint == strip(lower(column_hint))
      partial == {i \in 1..Len(columns) :
                    \/ Contains(hint, lower(columns[i].name))
                    \/ Contains(lower(columns[i].name), hint)}
  IN IF partial # {} THEN <<columns[least(partial)].name>> ELSE <<>>

\* the column a hint resolves to in a column list, in a one-element sequence, or <<>>
find_column(columns, column_hint) ==
  LET hint == strip(lower(column_hint))
      direct == {i \in 1..Len(columns) : hint = lower(columns[i].name)}
      partial == {i \in 1..Len(columns) :
                    \/ Contains(hint, lower(columns[i].name))
                    \/ Contains(lower(columns[i].name), hint)}
  IN IF direct # {} THEN <<columns[least(direct)].name>>
     ELSE IF partial # {} THEN <<columns[least(partial)].name>>
     ELSE <<>>

RECURSIVE find_columns(_, _)
find_columns(columns, column_hints) ==
  IF column_hints = <<>>
    THEN <<>>
    ELSE find_column(columns, Head(column_hints)) \o find_columns(columns, Tail(column_hints))

\* parser.find_columns_by_hint(table_name, column_hints)
find_columns_by_hint(p, table_name, column_hints) ==
  IF ~has_analyzer(p) \/ ~dict_has(table_columns[p], table_name)
    THEN <<>>
    ELSE find_columns(dict_get(table_columns[p], table_name), column_hints)

(***************************************************************************)
(* re.search / re.finditer for the patterns of the parser.  A search       *)
(* yields <<>> (no match) or <<group 1>>.                                  *)
(***************************************************************************)
\* The index of the last character of words[1] \s+ words[2] \s+ ... matched at i, or 0.
RECURSIVE prefix_end(_, _, _)
prefix_end(q, i, words) ==
  IF ~StartsAt(q, i, words[1])
    THEN 0
    ELSE IF Len(words) = 1
      THEN i + Len(words[1]) - 1
      ELSE LET s == RunEnd(q, i + Len(words[1]), SpaceChars)
           IN IF s >= i + Len(words[1]) THEN prefix_end(q, s + 1, Tail(words)) ELSE 0

\* re.search(r'kw\s+(\w+)', q)
search_kw_word(q, kw) ==
  LET space_end(i) == RunEnd(q, i + Len(kw), SpaceChars)
      ok(i) == /\ StartsAt(q, i, kw)
               /\ space_end(i) >= i + Len(kw)
               /\ RunEnd(q, space_end(i) + 1, WordChars) > space_end(i)
      hits == {i \in 1..Len(q) : ok(i)}
  IN IF hits = {}
       THEN <<>>
       ELSE LET s == space_end(least(hits))
            IN <<SubSeq(q, s + 1, RunEnd(q, s + 1, WordChars))>>

\* re.search(r'in\s+(\w+)\s+table', q)
search_in_word_table(q) ==
  LET s1(i) == RunEnd(q, i + 2, SpaceChars)
      w(i) == RunEnd(q, s1(i) + 1, WordChars)
      s2(i) == RunEnd(q, w(i) + 1, SpaceChars)
      ok(i) == /\ StartsAt(q, i, <<"i","n">>)
               /\ s1(i) >= i + 2
               /\ w(i) > s1(i)
               /\ s2(i) > w(i)
               /\ StartsAt(q, s2(i) + 1, <<"t","a","b","l","e">>)
      hits == {i \in 1..Len(q) : ok(i)}
  IN IF hits = {} THEN <<>>
     ELSE LET i == least(hits) IN <<SubSeq(q, s1(i) + 1, w(i))>>

\* re.search(r'(\w+)\s+table', q)
search_word_table(q) ==
  LET w(i) == RunEnd(q, i, WordChars)
      s(i) == RunEnd(q, w(i) + 1, SpaceChars)
      ok(i) == /\ q[i] \in WordChars
               /\ s(i) > w(i)
               /\ StartsAt(q, s(i) + 1, <<"t","a","b","l","e">>)
      hits == {i \in 1..Len(q) : ok(i)}
  IN IF hits = {} THEN <<>>
     ELSE LET i == least(hits) IN <<SubSeq(q, i, w(i))>>

\* the character classes [\w\s,] and . of the patterns
in_class(class, c) == IF class = "list" THEN c \in ListChars ELSE c # "\n"

\* re.search(r'w1\s+w2...\s+(C+?)(?:\s+t1|\s+t2|$)', q) for a stripped q, C a character
\* class given by the characters it excludes or includes: the group starts after
\* the whitespace and is the shortest run of class characters that a terminator follows
search_lazy(q, words, class, terms) ==
  LET term_at(k) ==
        \/ k = Len(q) + 1
        \/ /\ q[k] \in SpaceChars
           /\ \E t \in 1..Len(terms) : StartsAt(q, RunEnd(q, k, SpaceChars) + 1, terms[t])
      start(i) == RunEnd(q, prefix_end(q, i, words) + 1, SpaceChars) + 1
      ends(i) == {e \in start(i)..Len(q) :
                    /\ \A k \in start(i)..e : in_class(class, q[k])
                    /\ term_at(e + 1)}
      ok(i) == /\ prefix_end(q, i, words) > 0
               /\ start(i) > prefix_end(q, i, words) + 1
               /\ ends(i) # {}
      hits == {i \in 1..Len(q) : ok(i)}
  IN IF hits = {} THEN <<>>
     ELSE LET i == least(hits) IN <<SubSeq(q, start(i), least(ends(i)))>>


\* re.search(r'(?:top|first|limit)\s+(\d+)', q)
search_limit_word(q) ==
  LET kws == <<<<"t","o","p">>, <<"f","i","r","s","t">>, <<"l","i","m","i","t">>>>
      kw_len(i) == Len(kws[least({k \in 1..3 : StartsAt(q, i, kws[k])})])
      s(i) == RunEnd(q, i + kw_len(i), SpaceChars)
      ok(i) == /\ \E k \in 1..3 : StartsAt(q, i, kws[k])
               /\ s(i) >= i + kw_len(i)
               /\ RunEnd(q, s(i) + 1, DigitChars) > s(i)
      hits == {i \in 1..Len(q) : ok(i)}
  IN IF hits = {} THEN <<>>
     ELSE LET i == least(hits) IN <<SubSeq(q, s(i) + 1, RunEnd(q, s(i) + 1, DigitChars))>>

\* re.search(r'(\d+)\s+(?:rows?|records?)', q)
search_number_rows(q) ==
  LET d(i) == RunEnd(q, i, DigitChars)
      s(i) == RunEnd(q, d(i) + 1, SpaceChars)
      ok(i) == /\ q[i] \in DigitChars
               /\ s(i) > d(i)
               /\ (StartsAt(q, s(i) + 1, <<"r","o","w">>) \/ StartsAt(q, s(i) + 1, <<"r","e","c","o","r","d">>))
      hits == {i \in 1..Len(q) : ok(i)}
  IN IF hits = {} THEN <<>>
     ELSE LET i == least(hits) IN <<SubSeq(q, i, d(i))>>

\* One match of a condition pattern (\w+)\s*OP\s*LITERAL is [hint, literal, end]:
\* group 1, group 2 and the index of the match's last character.
QuoteChars == {"\"", "'"}

\* last index of the maximal run of characters outside cls that starts at i
RunEndNot(s, i, cls) ==
  CHOOSE j \in (i - 1)..Len(s) :
    /\ \A k \in i..j : s[k] \notin cls
    /\ j = Len(s) \/ s[j + 1] \in cls

\* the quoted literal ["\']([^"\']+)["\'] whose text runs from s + 1 to r
quoted_literal(text, s, r) ==
  IF r > s /\ r < Len(text)
    THEN <<[literal |-> SubSeq(text, s + 1, r), end |-> r + 1]>>
    ELSE <<>>

\* LITERAL matched at s: a quoted string or a number (\d+); <<>> when there is none
literal_at(text, s, quoted) ==
  IF s > Len(text) THEN <<>>
  ELSE IF quoted
    THEN IF text[s] \in QuoteChars
           THEN quoted_literal(text, s, RunEndNot(text, s + 1, QuoteChars))
           ELSE <<>>
    ELSE IF text[s] \in DigitChars
           THEN <<[literal |-> SubSeq(text, s, RunEnd(text, s, DigitChars)),
                   end |-> RunEnd(text, s, DigitChars)]>>
           ELSE <<>>

\* OP\s*LITERAL matched at k; a keyword OP is matched without regard to case
operator_at(text, k, op, is_keyword, quoted) ==
  IF StartsAt(IF is_keyword THEN lower(text) ELSE text, k, op)
    THEN literal_at(text, RunEnd(text, k + Len(op), SpaceChars) + 1, quoted)
    ELSE <<>>

\* the match whose group 1 is text[i..j], given what follows it
with_hint(text, i, j, rest) ==
  <<[hint |-> SubSeq(text, i, j), literal |-> rest[1].literal, end |-> rest[1].end]>>

\* the match that starts at i, where the run of word characters ends at w: the greedy
\* (\w+) takes the whole run, and gives characters back only to a keyword OP
group_match(text, i, w, op, is_keyword, quoted) ==
  LET after(j) ==
        operator_at(text, IF j = w THEN RunEnd(text, w + 1, SpaceChars) + 1 ELSE j + 1,
                    op, is_keyword, quoted)
      ends == {j \in (IF is_keyword THEN i ELSE w)..w : after(j) # <<>>}
  IN IF ends = {} THEN <<>> ELSE with_hint(text, i, greatest(ends), after(greatest(ends)))

\* the match of the pattern that starts at i, in a one-element sequence, or <<>>
condition_match_at(text, i, op, is_keyword, quoted) ==
  IF i > Len(text) \/ text[i] \notin WordChars
    THEN <<>>
    ELSE group_match(text, i, RunEnd(text, i, WordChars), op, is_keyword, quoted)

\* the matches from position pos on, given the first position that has one (0: none)
RECURSIVE matches_from(_, _, _, _, _)
first_match_then(text, m, op, is_keyword, quoted) ==
  IF m = <<>> THEN <<>> ELSE m \o matches_from(text, m[1].end + 1, op, is_keyword, quoted)

matches_from(text, pos, op, is_keyword, quoted) ==
  IF pos > Len(text)
    THEN <<>>
    ELSE IF condition_match_at(text, pos, op, is_keyword, quoted) = <<>>
      THEN matches_from(text, pos + 1, op, is_keyword, quoted)
      ELSE first_match_then(text, condition_match_at(text, pos, op, is_keyword, quoted),
                            op, is_keyword, quoted)

\* re.finditer(pattern, text): the matches, left to right
condition_matches(text, op, is_keyword, quoted) == matches_from(text, 1, op, is_keyword, quoted)

\* the six patterns of parse_conditions, in order, with their formatters
ConditionPatterns ==
  << [op |-> <<"=">>, is_keyword |-> FALSE, quoted |-> TRUE,
      before |-> <<" ","="," ","'">>, after |-> <<"'">>],
     [op |-> <<"=">>, is_keyword |-> FALSE, quoted |-> FALSE,
      before |-> <<" ","="," ">>, after |-> <<>>],
     [op |-> <<">">>, is_keyword |-> FALSE, quoted |-> FALSE,
      before |-> <<" ",">"," ">>, after |-> <<>>],
     [op |-> <<"<">>, is_keyword |-> FALSE, quoted |-> FALSE,
      before |-> <<" ","<"," ">>, after |-> <<>>],
     [op |-> <<"l","i","k","e">>, is_keyword |-> TRUE, quoted |-> TRUE,
      before |-> <<" ","L","I","K","E"," ","'","%">>, after |-> <<"%","'">>],
     [op |-> <<"c","o","n","t","a","i","n","s">>, is_keyword |-> TRUE, quoted |-> TRUE,
      before |-> <<" ","L","I","K","E"," ","'","%">>, after |-> <<"%","'">>] >>

\* formatter(match).replace(column_hint, matched_columns[0])
format_condition(pattern, m, column) ==
  replace(m.hint \o pattern.before \o m.literal \o pattern.after, 1, m.hint, column)

\* the conditions one pattern contributes
RECURSIVE conditions_of(_, _, _, _)
conditions_of(p, table_name, pattern, matches) ==
  IF matches = <<>>
    THEN <<>>
    ELSE LET matched_columns == find_columns_by_hint(p, table_name, <<Head(matches).hint>>)
         IN (IF matched_columns # <<>>
               THEN <<format_condition(pattern, Head(matches), matched_columns[1])>>
               ELSE <<>>)
            \o conditions_of(p, table_name, pattern, Tail(matches))

RECURSIVE conditions_from(_, _, _, _)
conditions_from(p, condition_text, table_name, k) ==
  IF k > Len(ConditionPatterns)
    THEN <<>>
    ELSE conditions_of(p, table_name, ConditionPatterns[k],
                       condition_matches(condition_text, ConditionPatterns[k].op,
                                         ConditionPatterns[k].is_keyword,
                                         ConditionPatterns[k].quoted))
         \o conditions_from(p, condition_text, table_name, k + 1)

\* parser.parse_conditions(condition_text, table_name)
parse_conditions(p, condition_text, table_name) ==
  IF ~has_analyzer(p) \/ table_name = <<>> \/ ~dict_has(table_columns[p], table_name)
    THEN <<>>
    ELSE conditions_from(p, condition_text, table_name, 1)

\* a lookup that takes the first hint for a table key without resolving it
first_hint(p, hints) == IF hints = <<>> THEN <<>> ELSE Head(hints)

\* the table of the first hint that resolves, or <<>>
RECURSIVE first_table(_, _)
first_table(p, hints) ==
  IF hints = <<>> THEN <<>>
  ELSE IF find_table_by_name(p, Head(hints)) # <<>> THEN find_table_by_name(p, Head(hints))
  ELSE first_table(p, Tail(hints))

\* the regular expressions of _extract_table_from_query, in order: the hints they capture
table_patterns(query) ==
  search_kw_word(query, <<"f","r","o","m">>) \o search_in_word_table(query)
    \o search_word_table(query) \o search_kw_word(query, <<"a","l","l">>)

\* the fallbacks of _extract_table_from_query when no pattern gave a table
table_or_fallback(p, query, context, by_pattern) ==
  IF by_pattern # <<>> THEN by_pattern
  ELSE IF context.suggested_tables # <<>> THEN context.suggested_tables[1]
  ELSE first_table(p, split(query))

\* parser._extract_table_from_query(query, context); <<>> is None
_extract_table_from_query(p, query, context) ==
  table_or_fallback(p, query, context, first_table(p, table_patterns(query)))

\* the first of the searches that matched: <<group 1>>, or <<>>
first_search(query, firsts, second, class, terms) ==
  LET m(k) == search_lazy(query, <<firsts[k]>> \o second, class, terms)
      matching == {k \in 1..Len(firsts) : m(k) # <<>>}
  IN IF matching = {} THEN <<>> ELSE m(least(matching))

\* the columns the matched column text names
columns_of_match(p, table_name, m) ==
  IF m = <<>> \/ strip(m[1]) \in {<<"a","l","l">>, <<"*">>, <<"e","v","e","r","y","t","h","i","n","g">>} \/ table_name = <<>>
    THEN <<>>
    ELSE find_columns_by_hint(p, table_name, split_on(strip(m[1]), SpaceChars \cup {","}, 1, <<>>))

\* parser._extract_columns_from_query(query, table_name)
_extract_columns_from_query(p, query, table_name) ==
  columns_of_match(p, table_name,
                   first_search(query, <<<<"s","h","o","w">>, <<"g","e","t">>, <<"s","e","l","e","c","t">>>>, <<>>,
                                "list", <<<<"f","r","o","m">>, <<"w","h","e","r","e">>>>))

\* the conditions the matched condition text holds
conditions_of_match(p, table_name, m) ==
  IF m = <<>> THEN <<>> ELSE parse_conditions(p, strip(m[1]), table_name)

\* parser._extract_conditions_from_query(query, table_name)
_extract_conditions_from_query(p, query, table_name) ==
  conditions_of_match(p, table_name,
                      first_search(query, <<<<"w","h","e","r","e">>, <<"w","i","t","h">>, <<"t","h","a","t">>>>, <<>>,
                                   "dot", <<<<"o","r","d","e","r">>, <<"g","r","o","u","p">>, <<"l","i","m","i","t">>>>))

\* int(match.group(1)) of the first limit pattern that matches; <<>> is None
limit_of_match(m) == IF m = <<>> THEN <<>> ELSE <<int_str(m[1])>>

\* parser._extract_limit_from_query(query)
_extract_limit_from_query(query) ==
  IF search_limit_word(query) # <<>>
    THEN limit_of_match(search_limit_word(query))
    ELSE limit_of_match(search_number_rows(query))

\* the (column, direction) pairs of the matched ordering text
order_of_columns(query, order_columns) ==
  IF order_columns = <<>>
    THEN <<>>
    ELSE << <<order_columns[1],
              IF Contains(<<"d","e","s","c">>, query) \/ Contains(<<"d","e","s","c","e","n","d","i","n","g">>, query)
                THEN <<"D","E","S","C">> ELSE <<"A","S","C">>>> >>

order_of_match(p, query, table_name, m) ==
  IF m = <<>> \/ table_name = <<>>
    THEN <<>>
    ELSE order_of_columns(query, find_columns_by_hint(p, table_name, <<strip(m[1])>>))

\* parser._extract_order_by_from_query(query, table_name)
_extract_order_by_from_query(p, query, table_name) ==
  IF ~any_in(<<<<"o","r","d","e","r"," ","b","y">>, <<"s","o","r","t"," ","b","y">>, <<"o","r","d","e","r","e","d"," ","b","y">>>>, query)
    THEN <<>>
    ELSE order_of_match(p, query, table_name,
                        first_search(query, <<<<"o","r","d","e","r">>, <<"s","o","r","t">>, <<"o","r","d","e","r","e","d">>>>, <<<<"b","y">>>>,
                                     "list", <<<<"l","i","m","i","t">>>>))

\* the aggregation parse_natural_language derives from the context
aggregations_of(context) ==
  LET intents == {context.query_intent[i] : i \in 1..Len(context.query_intent)}
  IN IF context.query_type # "aggregation" THEN <<>>
     ELSE IF "count_records" \in intents THEN <<<<"C","O","U","N","T">>>>
     ELSE IF "calculate_average" \in intents THEN <<<<"A","V","G">>>>
     ELSE IF "sum_values" \in intents THEN <<<<"S","U","M">>>>
     ELSE <<>>

\* the parsed query once the table is known
parsed_query(p, query, context, table) ==
  [action |-> "SELECT",
   table |-> table,
   columns |-> _extract_columns_from_query(p, query, table),
   conditions |-> _extract_conditions_from_query(p, query, table),
   limit |-> _extract_limit_from_query(query),
   order_by |-> _extract_order_by_from_query(p, query, table),
   group_by |-> <<>>,
   aggregations |-> aggregations_of(context),
   context |-> context]

parse_in_context(p, query, context) ==
  parsed_query(p, query, context, _extract_table_from_query(p, query, context))

parse_lowered(p, query, suggested) ==
  parse_in_context(p, query, analyze_user_query_context(p, query, suggested))

\* parser.parse_natural_language(query), with the order the suggestion set came out in
parse_natural_language(p, natural_query, suggested) ==
  parse_lowered(p, strip(lower(natural_query)), suggested)

\* the string build_sql_query returns when no table was identified
NoTableError == <<"-","-"," ","E","r","r","o","r",":"," ","N","o"," ","t","a","b","l","e"," ","i","d","e","n","t","i","f","i","e","d"," ","i","n"," ","t","h","e"," ","q","u","e","r","y">>

\* whether the TOP clause is added: parsed['limit'] is truthy and COUNT is not asked for
adds_top(parsed) ==
  /\ parsed.limit # <<>>
  /\ parsed.limit[1] # 0
  /\ \A i \in 1..Len(parsed.aggregations) : parsed.aggregations[i] # <<"C","O","U","N","T">>

\* the select clause before the TOP clause is added
select_clause_of(parsed) ==
  IF parsed.aggregations # <<>>
    THEN IF \E i \in 1..Len(parsed.aggregations) : parsed.aggregations[i] = <<"C","O","U","N","T">>
           THEN <<"S","E","L","E","C","T"," ","C","O","U","N","T","(","*",")">>
         ELSE IF parsed.columns # <<>>
           THEN <<"S","E","L","E","C","T"," ">> \o parsed.aggregations[1] \o <<"(">> \o parsed.columns[1] \o <<")">>
         ELSE <<"S","E","L","E","C","T"," ">> \o parsed.aggregations[1] \o <<"(","*",")">>
  ELSE IF parsed.columns # <<>>
    THEN <<"S","E","L","E","C","T"," ">> \o join(<<","," ">>, parsed.columns)
  ELSE <<"S","E","L","E","C","T"," ","*">>

\* select_clause.replace('SELECT', f'SELECT TOP {limit}')
add_top(select_clause, limit) ==
  replace(select_clause, 1, <<"S","E","L","E","C","T">>, <<"S","E","L","E","C","T"," ","T","O","P"," ">> \o str_int(limit))

\* parser.build_sql_query(parsed)
build_sql_query(parsed) ==
  IF parsed.table = <<>>
    THEN NoTableError
    ELSE
      LET select_clause ==
            IF adds_top(parsed)
              THEN add_top(select_clause_of(parsed), parsed.limit[1])
              ELSE select_clause_of(parsed)
          from_clause == <<"F","R","O","M"," ">> \o parsed.table
          where_clause ==
            IF parsed.conditions # <<>>
              THEN <<<<"W","H","E","R","E"," ">> \o join(<<" ","A","N","D"," ">>, parsed.conditions)>>
              ELSE <<>>
          order_items == [i \in 1..Len(parsed.order_by) |->
                            parsed.order_by[i][1] \o <<" ">> \o parsed.order_by[i][2]]
          order_clause ==
            IF parsed.order_by # <<>>
              THEN <<<<"O","R","D","E","R"," ","B","Y"," ">> \o join(<<","," ">>, order_items)>>
              ELSE <<>>
      IN join(<<"\n">>, <<select_clause, from_clause>> \o where_clause \o order_clause)

(***************************************************************************)
(* The translation entry points.  call holds the command the session is    *)
(* carrying out and what it returned, until the session's loop takes the   *)
(* next command.                                                           *)
(***************************************************************************)
NoCall == [op |-> "none"]

\* analyzer.execute_query(sql): pd.read_sql raises without a connection or a result
\* set and the handler returns an empty frame; otherwise the server decides
execute_query_frames(a, sql) ==
  IF connection[a] = <<>> \/ sql = NoTableError THEN {"empty"} ELSE {"empty", "rows"}

\* a translation that remembers the table it resolved under the text of the
\* request, as an entry of schema_info
natural_query_to_sql_caching(p, natural_query) ==
  \E suggested \in suggestion_lists(suggested_set(p, strip(lower(natural_query)))) :
    \E parsed \in {parse_natural_language(p, natural_query, suggested)} :
      /\ call' = [op |-> "natural_query_to_sql", parser |-> p, query |-> natural_query,
                  parsed |-> parsed, sql |-> build_sql_query(parsed), executed |-> <<>>,
                  df |-> "none"]
      /\ schema_info' = IF p \in Analyzers /\ parsed.table # <<>>
                          THEN [schema_info EXCEPT
                                  ![p] = dict_put(@, lower(natural_query), parsed.table)]
                          ELSE schema_info
      /\ UNCHANGED <<connection, table_columns, table_stats, filtered_tables,
                     database_metadata, files, builds, loads, exported, origin>>

\* parser.natural_query_to_sql(natural_query)
natural_query_to_sql(p, natural_query) ==
  \E suggested \in suggestion_lists(suggested_set(p, strip(lower(natural_query)))) :
    \E parsed \in {parse_natural_language(p, natural_query, suggested)} :
      /\ call' = [op |-> "natural_query_to_sql", parser |-> p, query |-> natural_query,
                  parsed |-> parsed, sql |-> build_sql_query(parsed), executed |-> <<>>,
                  df |-> "none"]
      /\ UNCHANGED <<connection, schema_info, table_columns, table_stats, filtered_tables,
                     database_metadata, files, builds, loads, exported, origin>>

\* converter.natural_query_to_dataframe(natural_query)
natural_query_to_dataframe(a, natural_query) ==
  \E suggested \in suggestion_lists(suggested_set(a, strip(lower(natural_query)))) :
    \E parsed \in {parse_natural_language(a, natural_query, suggested)} :
      \E sql \in {build_sql_query(parsed)} :
        \E df \in execute_query_frames(a, sql) :
          /\ call' = [op |-> "natural_query_to_dataframe", parser |-> a,
                      query |-> natural_query, parsed |-> parsed, sql |-> sql,
                      executed |-> <<sql>>, df |-> df]
          /\ UNCHANGED <<connection, schema_info, table_columns, table_stats,
                         filtered_tables, database_metadata, files, builds, loads, exported,
                         origin>>

\* the session's loop goes on to the next command
next_command ==
  /\ call # NoCall
  /\ call' = NoCall
  /\ UNCHANGED <<connection, schema_info, table_columns, table_stats, filtered_tables,
                 database_metadata, files, builds, loads, exported, origin>>

\* the requests of the sessions
Requests ==
  { <<"s","h","o","w"," ","a","l","l"," ","u","s","e","r","s">>,
    <<"c","o","u","n","t"," ","a","l","l"," ","u","s","e","r","s">>,
    <<"s","h","o","w"," ","t","o","p"," ","5"," ","u","s","e","r","s">>,
    <<"s","h","o","w"," ","a","l","l"," ","e","m","p","t","y">>,
    <<"s","h","o","w"," ","s","e","l","e","c","t","e","d"," ","f","r","o","m"," ","u","s","e","r","s"," ","l","i","m","i","t"," ","5">>,
    <<"S","h","o","w"," ","n","a","m","e"," ","f","r","o","m"," ","U","s","e","r","s"," ","w","h","e","r","e"," ","i","d"," ",">"," ","1","8"," ","o","r","d","e","r"," ","b","y"," ","n","a","m","e"," ","d","e","s","c">>,
    <<"f","i","n","d"," ","c","u","s","t","o","m","e","r","s"," ","w","h","e","r","e"," ","i","d"," ","="," ","5">>,
    <<"l","i","s","t"," ","e","v","e","r","y","t","h","i","n","g">>,
    <<"t","o","t","a","l"," ","n","u","m","b","e","r"," ","o","f"," ","a","c","t","i","v","e"," ","u","s","e","r","s">>,
    <<"h","o","w"," ","m","a","n","y"," ","r","o","w","s"," ","i","n"," ","a","u","d","i","t","_","l","o","g"," ","t","a","b","l","e">>,
    <<"a","v","e","r","a","g","e"," ","p","r","i","c","e"," ","f","r","o","m"," ","i","t","e","m","s">>,
    <<>> }

(***************************************************************************)
(* The state machine of a session                                          *)
(***************************************************************************)
NewSession ==
  /\ connection = [a \in Analyzers |-> <<>>]
  /\ schema_info = [a \in Analyzers |-> <<>>]
  /\ table_columns = [a \in Analyzers |-> <<>>]
  /\ table_stats = [a \in Analyzers |-> <<>>]
  /\ filtered_tables = [a \in Analyzers |-> <<>>]
  /\ database_metadata = [a \in Analyzers |-> <<>>]
  /\ files = [f \in Files |-> <<>>]
  /\ builds = [a \in Analyzers |-> <<>>]
  /\ loads = [a \in Analyzers |-> 0]
  /\ exported = [f \in Files |-> <<>>]
  /\ origin = [a \in Analyzers |-> <<>>]

Init == NewSession /\ call = NoCall

Idle == call = NoCall

Connect == Idle /\ \E a \in Analyzers, db \in Databases : connect(a, db)
Build == Idle /\ \E a \in Analyzers, min_rows \in MinRows : load_and_filter_schema(a, min_rows)
Export == Idle /\ \E a \in Analyzers, f \in Files : export_database_metadata(a, f)
Load == Idle /\ \E a \in Analyzers, f \in Files : load_metadata_from_json(a, f)
LoadMissing == Idle /\ \E a \in Analyzers, f \in Files : load_metadata_missing_file(a, f)
ToSql == Idle /\ \E p \in Parsers, q \in Requests : natural_query_to_sql(p, q)
ToDataframe == Idle /\ \E a \in Analyzers, q \in Requests : natural_query_to_dataframe(a, q)
NextCommand == next_command

\* the catalog's life: built from a database, exported, loaded
Next == Connect \/ Build \/ Export \/ Load \/ LoadMissing

Spec == Init /\ [][Next]_vars

\* requests translated against the catalog of the session
NextQuery == Connect \/ Build \/ ToSql \/ ToDataframe \/ NextCommand

SpecQuery == Init /\ [][NextQuery]_vars

(***************************************************************************)
(* The classifier on its own: a session that is handed one request text    *)
(***************************************************************************)
MaxWords == 2

ClassifyWords ==
  << <<"c","o","u","n","t">>, <<"h","o","w"," ","m","a","n","y">>, <<"t","o","t","a","l"," ","n","u","m","b","e","r">>, <<"a","v","e","r","a","g","e">>, <<"a","v","g">>, <<"s","u","m">>, <<"t","o","t","a","l">>,
     <<"s","h","o","w">>, <<"g","e","t">>, <<"f","i","n","d">>, <<"w","h","e","r","e">>, <<"u","s","e","r","s">>, <<"C","O","U","N","T">>, <<"D","i","s","c","o","u","n","t">>,
     <<"s","e","a","r","c","h">>, <<"o","r","d","e","r","s">>, <<"a","n","d">>, <<"b","r","a","n","d">> >>

\* the texts of n words
RECURSIVE texts_of(_)
texts_of(n) ==
  IF n = 0
    THEN {<<>>}
    ELSE {IF t = <<>> THEN ClassifyWords[w] ELSE t \o <<" ">> \o ClassifyWords[w] :
            t \in texts_of(n - 1), w \in 1..Len(ClassifyWords)}

ClassifyRequests ==
  UNION {texts_of(n) : n \in 0..MaxWords}
    \cup {<<"t","o","t","a","l"," ","n","u","m","b","e","r"," ","o","f"," ","a","c","t","i","v","e"," ","u","s","e","r","s">>,
          <<"f","i","n","d"," ","u","s","e","r","s"," ","w","h","e","r","e"," ","a","g","e"," ",">"," ","1","8"," ","a","n","d"," ","c","i","t","y"," ","="," ","5"," ","o","r","d","e","r"," ","b","y"," ","n","a","m","e">>,
          <<"f","i","n","d"," ","u","s","e","r","s"," ","h","a","v","i","n","g"," ","o","r","d","e","r","s"," ","o","r"," ","g","r","o","u","p"," ","b","y"," ","b","r","a","n","d">>}

InitClassify ==
  /\ NewSession
  /\ \E q \in ClassifyRequests : call = [op |-> "request", query |-> q]

\* parser.analyze_user_query_context(natural_query) of a parser without an analyzer
Classify ==
  /\ call.op = "request"
  /\ call' = [op |-> "analyze_user_query_context", query |-> call.query,
              context |-> analyze_user_query_context(0, call.query, <<>>)]
  /\ UNCHANGED <<connection, schema_info, table_columns, table_stats, filtered_tables,
                 database_metadata, files, builds, loads, exported, origin>>

NextClassify == Classify

SpecClassify == InitClassify /\ [][NextClassify]_vars

(***************************************************************************)
(* The assembler on its own: a session that is handed one ParsedQuery      *)
(***************************************************************************)
MaxColumns == 2

ColumnNames == {<<"i","d">>, <<"n","a","m","e">>, <<"S","E","L","E","C","T","E","D">>}

ColumnLists == UNION {[1..n -> ColumnNames] : n \in 0..MaxColumns}

ParsedQueries ==
  [action : {"SELECT"},
   table : {<<>>, <<"d","b","o",".","u","s","e","r","s">>},
   columns : ColumnLists,
   conditions : {<<>>, <<<<"i","d"," ",">"," ","1","8">>>>, <<<<"i","d"," ",">"," ","1","8">>, <<"n","a","m","e"," ","="," ","'","b","o","b","'">>>>},
   limit : {<<>>, <<0>>, <<5>>, <<10>>},
   order_by : {<<>>, << <<<<"n","a","m","e">>, <<"D","E","S","C">>>> >>},
   group_by : {<<>>},
   aggregations : {<<>>, <<<<"C","O","U","N","T">>>>, <<<<"A","V","G">>>>, <<<<"S","U","M">>>>}]

InitBuildSql ==
  /\ NewSession
  /\ \E parsed \in ParsedQueries : call = [op |-> "request", parsed |-> parsed]

\* parser.build_sql_query(parsed)
BuildSql ==
  /\ call.op = "request"
  /\ call' = [op |-> "build_sql_query", parsed |-> call.parsed,
              sql |-> build_sql_query(call.parsed)]
  /\ UNCHANGED <<connection, schema_info, table_columns, table_stats, filtered_tables,
                 database_metadata, files, builds, loads, exported, origin>>

NextBuildSql == BuildSql

SpecBuildSql == InitBuildSql /\ [][NextBuildSql]_vars

(***************************************************************************)
(* The key heuristics on their own: a session that builds the catalog of   *)
(* a database whose columns sit on the thresholds and asks for the keys    *)
(***************************************************************************)
\* COUNT(col) and COUNT(DISTINCT col) of a column of a 10000-row table:
\* ratio 0.9499; ratio 0.95; ratio 0.95 with 4.99 % nulls; ratio 1.0 with 5.0 % nulls
KeyCounts == {<<10000, 9499>>, <<10000, 9500>>, <<9501, 9026>>, <<9500, 9500>>}

KeyTypes == {<<"i","n","t">>, <<"b","i","g","i","n","t">>, <<"u","n","i","q","u","e","i","d","e","n","t","i","f","i","e","r">>, <<"v","a","r","c","h","a","r">>, <<"n","v","a","r","c","h","a","r">>, <<"b","i","t">>,
             <<"d","e","c","i","m","a","l">>}

LinkNames == {<<"i","d">>, <<"I","D">>, <<"r","o","w","i","d">>, <<"R","o","w","I","D">>, <<"u","s","e","r","_","i","d">>, <<"U","s","e","r","I","D">>, <<"v","a","l","i","d">>,
              <<"o","r","d","e","r","i","d">>}

LinkTypes == {<<"i","n","t">>, <<"b","i","g","i","n","t">>, <<"v","a","r","c","h","a","r">>}

\* dbo.orders (10000 rows: a column on a threshold, a fully unique column with
\* a name of LinkNames), dbo.users (1000 rows, id)
KeyDatabases ==
  { << [schema |-> <<"d","b","o">>, name |-> <<"o","r","d","e","r","s">>, rows |-> 10000,
        columns |-> << Col(<<"c","o","d","e">>, ty, TRUE, 1, cnt[1], cnt[2]),
                       Col(nm, lty, FALSE, 2, 10000, 10000) >>],
       [schema |-> <<"d","b","o">>, name |-> <<"u","s","e","r","s">>, rows |-> 1000,
        columns |-> << Col(<<"i","d">>, <<"i","n","t">>, FALSE, 1, 1000, 1000) >>] >> :
      ty \in KeyTypes, cnt \in KeyCounts, nm \in LinkNames, lty \in LinkTypes }

\* the names of a link column of dbo.events
LinkColumns == {<<"u","s","e","r","_","i","d">>, <<"u","s","e","r","i","d">>, <<"v","i","d","e","o","_","i","d">>, <<"v","a","l","i","d">>}

\* dbo.events with an int column of a name of LinkColumns, four tables whose
\* simple name contains "user" and dbo.videos
LinkDatabases ==
  { << [schema |-> <<"d","b","o">>, name |-> <<"e","v","e","n","t","s">>, rows |-> 5000,
        columns |-> << Col(nm, <<"i","n","t">>, FALSE, 1, 5000, 40) >>],
       [schema |-> <<"d","b","o">>, name |-> <<"u","s","e","r","s">>, rows |-> 1000,
        columns |-> << Col(<<"i","d">>, <<"i","n","t">>, FALSE, 1, 1000, 1000) >>],
       [schema |-> <<"d","b","o">>, name |-> <<"u","s","e","r","_","r","o","l","e","s">>, rows |-> 1001,
        columns |-> << Col(<<"i","d">>, <<"i","n","t">>, FALSE, 1, 1001, 1001) >>],
       [schema |-> <<"d","b","o">>, name |-> <<"a","l","l","_","u","s","e","r","s">>, rows |-> 2000,
        columns |-> << Col(<<"i","d">>, <<"i","n","t">>, FALSE, 1, 2000, 2000) >>],
       [schema |-> <<"d","b","o">>, name |-> <<"u","s","e","r","_","l","o","g","s">>, rows |-> 3000,
        columns |-> << Col(<<"i","d">>, <<"i","n","t">>, FALSE, 1, 3000, 3000) >>],
       [schema |-> <<"d","b","o">>, name |-> <<"v","i","d","e","o","s">>, rows |-> 1000,
        columns |-> << Col(<<"i","d">>, <<"i","n","t">>, FALSE, 1, 1000, 1000) >>] >> :
      nm \in LinkColumns }

\* the table keys a caller can ask about: those of the connected database
known_tables(a) ==
  IF connection[a] = <<>>
    THEN {}
    ELSE {table_key_of(connection[a][1][i]) : i \in 1..Len(connection[a][1])}

ConnectKeys ==
  Idle /\ \E a \in Analyzers, db \in KeyDatabases \cup LinkDatabases : connect(a, db)

\* manager.identify_primary_key_candidates(table_key)
IdentifyPrimaryKeys ==
  /\ Idle
  /\ \E a \in Analyzers : \E table_key \in known_tables(a) :
       call' = [op |-> "identify_primary_key_candidates", analyzer |-> a,
                table_key |-> table_key,
                candidates |-> identify_primary_key_candidates(a, table_key)]
  /\ UNCHANGED <<connection, schema_info, table_columns, table_stats, filtered_tables,
                 database_metadata, files, builds, loads, exported, origin>>

\* manager.identify_foreign_key_candidates(table_key)
IdentifyForeignKeys ==
  /\ Idle
  /\ \E a \in Analyzers : \E table_key \in known_tables(a) :
       call' = [op |-> "identify_foreign_key_candidates", analyzer |-> a,
                table_key |-> table_key,
                candidates |-> identify_foreign_key_candidates(a, table_key)]
  /\ UNCHANGED <<connection, schema_info, table_columns, table_stats, filtered_tables,
                 database_metadata, files, builds, loads, exported, origin>>

NextKeys == ConnectKeys \/ Build \/ IdentifyPrimaryKeys \/ IdentifyForeignKeys

SpecKeys == Init /\ [][NextKeys]_vars

(***************************************************************************)
(* Builds against a server that answers some queries with an error         *)
(***************************************************************************)
\* at most this many queries of a build fail
MaxFaults == 2

\* the queries of a build that can fail
FaultPoints(db) ==
  UNION { {count_query(db[i])}
            \cup {stats_query(db[i], db[i].columns[j]) : j \in 1..Len(db[i].columns)}
            \cup {extended_query(db[i], db[i].columns[j]) : j \in 1..Len(db[i].columns)} :
          i \in 1..Len(db) }

FaultSets(db) == {faults \in SUBSET FaultPoints(db) : Cardinality(faults) <= MaxFaults}

\* the build of a new analyzer
BuildFailing ==
  /\ Idle
  /\ \E a \in Analyzers :
       /\ connection[a] # <<>>
       /\ builds[a] = <<>>
       /\ \E min_rows \in MinRows, faults \in FaultSets(connection[a][1]) :
            load_and_filter_schema_failing(a, min_rows, faults)

NextFaults == Connect \/ BuildFailing \/ NextCommand

SpecFaults == Init /\ [][NextFaults]_vars

(***************************************************************************)
(* Exports to a path that cannot always be written                         *)
(***************************************************************************)
\* how many table entries a failing write can have completed
MaxWritten == 2

ExportFailsAtOpen ==
  Idle /\ \E a \in Analyzers, f \in Files : export_fails_at_open(a, f)

ExportFailsAtWrite ==
  Idle /\ \E a \in Analyzers, f \in Files, n \in 0..MaxWritten : export_fails_at_write(a, f, n)

NextExport ==
  Connect \/ Build \/ Export \/ ExportFailsAtOpen \/ ExportFailsAtWrite \/ Load
    \/ LoadMissing \/ NextCommand

SpecExport == Init /\ [][NextExport]_vars

(***************************************************************************)
(* The table lookup on its own: a session that builds a catalog and asks   *)
(* for tables by hint                                                      *)
(***************************************************************************)
\* dbo.all_users comes before dbo.users in the order of the schema query
DbC ==
  << [schema |-> <<"d","b","o">>, name |-> <<"a","l","l","_","u","s","e","r","s">>, rows |-> 2000,
      columns |-> << Col(<<"i","d">>, <<"i","n","t">>, FALSE, 1, 2000, 2000) >>],
     [schema |-> <<"d","b","o">>, name |-> <<"o","r","d","e","r","s">>, rows |-> 5000,
      columns |-> << Col(<<"i","d">>, <<"i","n","t">>, FALSE, 1, 5000, 5000) >>],
     [schema |-> <<"d","b","o">>, name |-> <<"u","s","e","r","s">>, rows |-> 1000,
      columns |-> << Col(<<"i","d">>, <<"i","n","t">>, FALSE, 1, 1000, 1000) >>] >>

LookupDatabases == Databases \cup {DbC}

LookupHints ==
  { <<"u","s","e","r","s">>, <<" ","U","s","e","r","s"," ">>, <<"u","s","e","r">>, <<"t","h","e"," ","u","s","e","r","s"," ","t","a","b","l","e">>, <<"b","i","g"," ","o","r","d","e","r","s">>, <<"o","r","d","e","r","s">>,
    <<"o","r","d","e","r">>, <<"i","t","e","m","s">>, <<"a","u","d","i","t"," ","l","o","g">>, <<"c","u","s","t","o","m","e","r","s">>, <<"o","l","d"," ","c","u","s","t","o","m","e","r","s">>, <<>> }

ConnectLookup == Idle /\ \E a \in Analyzers, db \in LookupDatabases : connect(a, db)

\* parser.find_table_by_name(table_hint)
FindTable ==
  /\ Idle
  /\ \E p \in Parsers, table_hint \in LookupHints :
       call' = [op |-> "find_table_by_name", parser |-> p, table_hint |-> table_hint,
                table |-> find_table_by_name(p, table_hint)]
  /\ UNCHANGED <<connection, schema_info, table_columns, table_stats, filtered_tables,
                 database_metadata, files, builds, loads, exported, origin>>

NextLookup == ConnectLookup \/ Build \/ FindTable

SpecLookup == Init /\ [][NextLookup]_vars

(***************************************************************************)
(* The profiler on its own: a session that is handed one table and the     *)
(* queries that fail, for each of the two copies of analyze_column_data    *)
(***************************************************************************)
ProfilerCopies == {"database_analyzer", "test"}

ProfiledTables == UNION {{db[i] : i \in 1..Len(db)} : db \in Databases}

\* the per-column queries of a table that can fail
ColumnFaultPoints(t) ==
  {stats_query(t, t.columns[j]) : j \in 1..Len(t.columns)}
    \cup {extended_query(t, t.columns[j]) : j \in 1..Len(t.columns)}

ColumnFaultSets(t) ==
  {faults \in SUBSET ColumnFaultPoints(t) : Cardinality(faults) <= MaxFaults}

InitProfile ==
  /\ NewSession
  /\ \E copy \in ProfilerCopies, t \in ProfiledTables :
       \E faults \in ColumnFaultSets(t) :
         call = [op |-> "request", copy |-> copy, table |-> t, faults |-> faults]

\* DatabaseAnalyzer.analyze_column_data(table_name, column_info)
Profile ==
  /\ call.op = "request"
  /\ call.copy = "database_analyzer"
  /\ \E out \in {analyze_column_data(call.table, call.faults)} :
       call' = [op |-> "analyze_column_data", copy |-> call.copy, table |-> call.table,
                faults |-> call.faults, analysis |-> out.analysis, queries |-> out.queries]
  /\ UNCHANGED <<connection, schema_info, table_columns, table_stats, filtered_tables,
                 database_metadata, files, builds, loads, exported, origin>>

\* analyze_column_data of the single-class copy
ProfileMonolith ==
  /\ call.op = "request"
  /\ call.copy = "test"
  /\ \E out \in {analyze_column_data_monolith(call.table, call.faults)} :
       call' = [op |-> "analyze_column_data", copy |-> call.copy, table |-> call.table,
                faults |-> call.faults, analysis |-> out.analysis, queries |-> out.queries]
  /\ UNCHANGED <<connection, schema_info, table_columns, table_stats, filtered_tables,
                 database_metadata, files, builds, loads, exported, origin>>

NextProfile == Profile \/ ProfileMonolith

SpecProfile == InitProfile /\ [][NextProfile]_vars


(***************************************************************************)
(* The suggestions on their own: a session that builds a catalog and asks  *)
(* for the context of a request                                            *)
(***************************************************************************)
SuggestDatabases == {db \in LinkDatabases : db[1].columns[1].name = <<"u","s","e","r","_","i","d">>} \cup {DbB}

SuggestRequests ==
  { <<"s","h","o","w"," ","s">>,
    <<"l","i","s","t"," ","u","s","e","r"," ","l","o","g","s">>,
    <<"s","h","o","w"," ","a","l","l"," ","U","s","e","r","s">>,
    <<"f","i","n","d"," ","v","i","d","e","o","s"," ","a","n","d"," ","u","s","e","r","s">>,
    <<"c","o","u","n","t"," ","i","t","e","m","s">>,
    <<"s","h","o","w"," ","c","u","s","t","o","m","e","r","s">>,
    <<>> }

ConnectSuggest == Idle /\ \E a \in Analyzers, db \in SuggestDatabases : connect(a, db)

\* parser.analyze_user_query_context(natural_query)
Suggest ==
  /\ Idle
  /\ \E p \in Parsers, q \in SuggestRequests :
       \E suggested \in suggestion_lists(suggested_set(p, lower(q))) :
         call' = [op |-> "analyze_user_query_context", parser |-> p, query |-> q,
                  context |-> analyze_user_query_context(p, q, suggested)]
  /\ UNCHANGED <<connection, schema_info, table_columns, table_stats, filtered_tables,
                 database_metadata, files, builds, loads, exported, origin>>

NextSuggest == ConnectSuggest \/ Build \/ Suggest \/ NextCommand

SpecSuggest == Init /\ [][NextSuggest]_vars

(***************************************************************************)
(* The column lookup on its own                                            *)
(***************************************************************************)
\* at most this many hints in a call
MaxHints == 2

\* dbo.users (id, user_name, Name, email, age) and dbo.orders (id, user_id)
DbD ==
  << [schema |-> <<"d","b","o">>, name |-> <<"o","r","d","e","r","s">>, rows |-> 5000,
      columns |-> << Col(<<"i","d">>, <<"i","n","t">>, FALSE, 1, 5000, 5000),
                     Col(<<"u","s","e","r","_","i","d">>, <<"i","n","t">>, TRUE, 2, 4900, 900) >>],
     [schema |-> <<"d","b","o">>, name |-> <<"u","s","e","r","s">>, rows |-> 1000,
      columns |-> << Col(<<"i","d">>, <<"i","n","t">>, FALSE, 1, 1000, 1000),
                     Col(<<"u","s","e","r","_","n","a","m","e">>, <<"v","a","r","c","h","a","r">>, FALSE, 2, 1000, 1000),
                     Col(<<"N","a","m","e">>, <<"v","a","r","c","h","a","r">>, TRUE, 3, 990, 950),
                     Col(<<"e","m","a","i","l">>, <<"v","a","r","c","h","a","r">>, TRUE, 4, 900, 900),
                     Col(<<"a","g","e">>, <<"i","n","t">>, TRUE, 5, 900, 80) >>] >>

ColumnHints ==
  { <<"n","a","m","e">>, <<" ","N","A","M","E"," ">>, <<"u","s","e","r">>, <<"m","a","i","l">>, <<"e","m","a","i","l"," ","a","d","d","r","e","s","s">>, <<"p","a","i","d">>, <<"z","z","z">>, <<>> }

ColumnHintLists == UNION {[1..n -> ColumnHints] : n \in 0..MaxHints}

ColumnTables == {<<"d","b","o",".","u","s","e","r","s">>, <<"d","b","o",".","o","r","d","e","r","s">>, <<"d","b","o",".","c","u","s","t","o","m","e","r","s">>}

ConnectColumns == Idle /\ \E a \in Analyzers : connect(a, DbD)

\* parser.find_columns_by_hint(table_name, column_hints)
FindColumns ==
  /\ Idle
  /\ \E p \in Parsers, table_name \in ColumnTables, column_hints \in ColumnHintLists :
       call' = [op |-> "find_columns_by_hint", parser |-> p, table_name |-> table_name,
                column_hints |-> column_hints,
                columns |-> find_columns_by_hint(p, table_name, column_hints)]
  /\ UNCHANGED <<connection, schema_info, table_columns, table_stats, filtered_tables,
                 database_metadata, files, builds, loads, exported, origin>>

ConditionTexts ==
  { <<"a","g","e"," ",">"," ","1","8">>, <<"a","g","e"," ",">"," ","1","8"," ","a","n","d"," ","i","d"," ","<"," ","7">>, <<"n","a","m","e"," ","="," ","'","n","a","m","e","1","'">>, <<"u","s","e","r"," ","="," ","'","u","s","e","r"," ","1","'">>,
    <<"I"," ","l","i","k","e"," ","'","x","'">>, <<"e","m","a","i","l"," ","c","o","n","t","a","i","n","s"," ","'","m","a","i","l","'">>, <<"z","z","z"," ","="," ","5">>, <<"a","g","e"," ","="," ","1","8"," ","o","r"," ","z","z","z"," ","="," ","'","a","'">>,
    <<"a","g","e"," ","i","s"," ","h","i","g","h">>, <<>> }

\* parser.parse_conditions(condition_text, table_name)
ParseConditions ==
  /\ Idle
  /\ \E p \in Parsers, table_name \in ColumnTables, condition_text \in ConditionTexts :
       call' = [op |-> "parse_conditions", parser |-> p, table_name |-> table_name,
                condition_text |-> condition_text,
                conditions |-> parse_conditions(p, condition_text, table_name)]
  /\ UNCHANGED <<connection, schema_info, table_columns, table_stats, filtered_tables,
                 database_metadata, files, builds, loads, exported, origin>>

NextColumns == ConnectColumns \/ Build \/ FindColumns \/ ParseConditions \/ NextCommand

SpecColumns == Init /\ [][NextColumns]_vars

(***************************************************************************)
(* The parser on its own: a session that builds a catalog and parses a     *)
(* request                                                                 *)
(***************************************************************************)
ParseDatabases == {DbA, DbC}

ParseRequests ==
  { <<"s","h","o","w"," ","a","l","l"," ","u","s","e","r","s">>,
    <<"c","o","u","n","t"," ","a","l","l"," ","u","s","e","r","s">>,
    <<"s","h","o","w"," ","t","o","p"," ","5"," ","u","s","e","r","s">>,
    <<"s","h","o","w"," ","t","o","p"," ","0"," ","u","s","e","r","s">>,
    <<"S","h","o","w"," ","F","i","r","s","t"," ","1","0"," ","R","o","w","s"," ","f","r","o","m"," ","O","r","d","e","r","s">>,
    <<"l","i","s","t"," ","3"," ","r","e","c","o","r","d","s"," ","o","f"," ","u","s","e","r","s"," ","l","i","m","i","t"," ","7">>,
    <<"s","h","o","w"," ","a","l","l"," ","u","s","e","r"," ","d","a","t","a"," ","f","o","r"," ","u","s","e","r","s">>,
    <<"s","h","o","w"," ","u","s","e","r","s"," ","o","r"," ","n","o","t","h","i","n","g">>,
    <<"f","i","n","d"," ","c","u","s","t","o","m","e","r","s">>,
    <<>> }

ConnectParse == Idle /\ \E a \in Analyzers, db \in ParseDatabases : connect(a, db)

\* parser.parse_natural_language(query)
Parse ==
  /\ Idle
  /\ \E p \in Parsers, q \in ParseRequests :
       \E suggested \in suggestion_lists(suggested_set(p, strip(lower(q)))) :
         call' = [op |-> "parse_natural_language", parser |-> p, query |-> q,
                  parsed |-> parse_natural_language(p, q, suggested)]
  /\ UNCHANGED <<connection, schema_info, table_columns, table_stats, filtered_tables,
                 database_metadata, files, builds, loads, exported, origin>>

NextParse == ConnectParse \/ Build \/ Parse \/ NextCommand

SpecParse == Init /\ [][NextParse]_vars

(***************************************************************************)
(* Loads of snapshots that lack a field                                    *)
(***************************************************************************)
\* the snapshot at a path is replaced by one whose k-th table entry lacks a field
SnapshotReplaced ==
  /\ Idle
  /\ \E f \in Files :
       /\ readable(f)
       /\ complete(files[f][1])
       /\ \E k \in 1..Len(files[f][1].tables), field \in EntryFields :
            files' = [files EXCEPT ![f] = <<incomplete_document(files[f][1], k, field)>>]
       /\ exported' = [exported EXCEPT ![f] = <<>>]
  /\ UNCHANGED <<connection, schema_info, table_columns, table_stats, filtered_tables,
                 database_metadata, builds, loads, origin, call>>

LoadIncomplete == Idle /\ \E a \in Analyzers, f \in Files : load_metadata_incomplete(a, f)

NextLoad ==
  \/ Connect \/ Build \/ Export \/ SnapshotReplaced \/ Load \/ LoadMissing \/ LoadIncomplete
  \/ NextCommand

SpecLoad == Init /\ [][NextLoad]_vars
(***************************************************************************)
(* Properties                                                              *)
(***************************************************************************)
\* the analyzer's catalog is the result of one load_and_filter_schema on the
\* catalog as constructed
built_once(a) == Len(builds[a]) = 1 /\ loads[a] = 0

\* the tables section of the snapshot at a path
snapshot_tables(f) == json_load(files[f][1]).tables

\* C1: after load_and_filter_schema(min_rows) on a new analyzer, a table of the
\* database with fewer than min_rows rows has no entry in filtered_tables,
\* table_columns or table_stats, nor in the tables section of a snapshot the
\* analyzer exports afterwards; a table with at least min_rows rows has an entry
\* in each of them.
C1_FilteredTablesDropped ==
  \A a \in Analyzers :
    built_once(a) =>
      \A i \in 1..Len(builds[a][1].db) :
        LET t == builds[a][1].db[i]
            key == table_key_of(t)
            kept == t.rows >= builds[a][1].min_rows
        IN /\ dict_has(filtered_tables[a], key) <=> kept
           /\ dict_has(table_columns[a], key) <=> kept
           /\ dict_has(table_stats[a], key) <=> kept
           /\ \A f \in Files :
                (exported[f] # <<>> /\ exported[f][1].by = a
                 /\ exported[f][1].builds = builds[a])
                  => (dict_has(snapshot_tables(f), key) <=> kept)

\* scenario A: users = 1000, empty = 0, orders = 5000 rows and min_rows = 1 retain
\* exactly dbo.orders and dbo.users, in the catalog and in the exported snapshot
C1_Witness ==
  /\ built_once(1)
  /\ builds[1][1] = [db |-> DbA, min_rows |-> 1]
  /\ dict_keys(filtered_tables[1]) = <<<<"d","b","o",".","o","r","d","e","r","s">>, <<"d","b","o",".","u","s","e","r","s">>>>
  /\ \E f \in Files :
       /\ exported[f] # <<>>
       /\ exported[f][1].by = 1
       /\ exported[f][1].builds = builds[1]
       /\ dict_keys(snapshot_tables(f)) = <<<<"d","b","o",".","o","r","d","e","r","s">>, <<"d","b","o",".","u","s","e","r","s">>>>

\* the keys of the tables load_and_filter_schema retained
retained(a) == {filtered_tables[a][i][1] : i \in 1..Len(filtered_tables[a])}

\* the hints the lookups are tried with: the table names of the databases, in
\* lower case, and a name no database has
TableHints ==
  UNION {{lower(db[i].name) : i \in 1..Len(db)} : db \in Databases} \cup {<<"c","u","s","t","o","m","e","r","s">>}

\* whether the call in hand is a translation by parser p
translated_by(p) ==
  /\ call.op \in {"natural_query_to_sql", "natural_query_to_dataframe"}
  /\ call.parser = p

\* C2: after load_and_filter_schema a table below the threshold never appears in
\* resolution: find_table_by_name returns null or the key of a retained table for
\* every hint, parse_natural_language resolves the table to null or a retained
\* table, and the SQL has no FROM clause that names another table.
C2_FilteredOutNeverResolved ==
  \A a \in Analyzers :
    built_once(a) =>
      /\ \A hint \in TableHints :
           find_table_by_name(a, hint) \in {<<>>} \cup retained(a)
      /\ translated_by(a) =>
           /\ call.parsed.table \in {<<>>} \cup retained(a)
           /\ \A i \in 1..Len(builds[a][1].db) :
                table_key_of(builds[a][1].db[i]) \notin retained(a)
                  => ~Contains(<<"F","R","O","M"," ">> \o table_key_of(builds[a][1].db[i]), call.sql)

\* the fields of a column the snapshot carries
column_descriptor(col) ==
  [name |-> col.name, type |-> col.type, nullable |-> col.nullable,
   position |-> col.position]

column_descriptors(columns) == [i \in 1..Len(columns) |-> column_descriptor(columns[i])]

\* C3: a snapshot loaded into a new analyzer gives the table keys, the row counts
\* and the column lists (name, type, nullable, position of every column, in order)
\* of the catalog it was exported from.
C3_RoundTripCatalog ==
  \A a \in Analyzers :
    origin[a] # <<>> =>
      LET source == origin[a][1].catalog
      IN /\ dict_keys(filtered_tables[a]) = dict_keys(source.filtered_tables)
         /\ dict_keys(table_columns[a]) = dict_keys(source.table_columns)
         /\ \A i \in 1..Len(source.filtered_tables) :
              LET key == source.filtered_tables[i][1]
              IN /\ dict_get(filtered_tables[a], key).row_count
                      = source.filtered_tables[i][2].row_count
                 /\ column_descriptors(dict_get(filtered_tables[a], key).columns)
                      = column_descriptors(source.filtered_tables[i][2].columns)
                 /\ column_descriptors(dict_get(table_columns[a], key))
                      = column_descriptors(dict_get(source.table_columns, key))

\* a snapshot of two tables was loaded into a new analyzer
C3_Witness ==
  \E a \in Analyzers :
    /\ origin[a] # <<>>
    /\ Len(origin[a][1].catalog.filtered_tables) = 2
    /\ Len(filtered_tables[a]) = 2
    /\ Len(dict_get(table_columns[a], filtered_tables[a][2][1])) >= 2

\* C4: after a snapshot is loaded into a new analyzer, calculate_data_quality_score
\* gives for every table the data_quality_score the snapshot records for it.
C4_RecomputedScoreAsRecorded ==
  \A a \in Analyzers :
    origin[a] # <<>> =>
      \A i \in 1..Len(origin[a][1].metadata.tables) :
        calculate_data_quality_score(a, origin[a][1].metadata.tables[i][1])
          = origin[a][1].metadata.tables[i][2].statistics.data_quality_score

\* C5: natural_query_to_dataframe does not call execute_query with the
\* diagnostic string of a request without a table.
C5_DiagnosticNeverExecuted ==
  call.op = "natural_query_to_dataframe" =>
    \A i \in 1..Len(call.executed) : call.executed[i] # NoTableError

\* the maximal runs of word characters of a text
word_runs(text) ==
  {SubSeq(text, i, RunEnd(text, i, WordChars)) :
     i \in {i \in 1..Len(text) : text[i] \in WordChars
                                  /\ (i = 1 \/ text[i - 1] \notin WordChars)}}

\* no part of the request names a table: none of its words, none of their runs
\* of word characters, and no table of the catalog is suggested for it
unresolved(p, natural_query) ==
  LET query == strip(lower(natural_query))
      words == split(query)
  IN /\ \A i \in 1..Len(words) : find_table_by_name(p, words[i]) = <<>>
     /\ \A run \in word_runs(query) : find_table_by_name(p, run) = <<>>
     /\ suggested_set(p, query) = {}

\* C6: for a request whose table cannot be resolved, a parser without catalog
\* included, natural_query_to_sql returns a parsed query with table = null and
\* no predicates, and the diagnostic string as its SQL; it has no raising path.
C6_UnresolvedTableDiagnostic ==
  \A p \in Parsers :
    translated_by(p) =>
      /\ unresolved(p, call.query) => call.parsed.table = <<>>
      /\ call.parsed.table = <<>> =>
           /\ call.parsed.conditions = <<>>
           /\ call.sql = NoTableError

\* a request with a condition text was translated against a built catalog that
\* has none of its words
C6_Witness ==
  /\ translated_by(1)
  /\ built_once(1)
  /\ filtered_tables[1] # <<>>
  /\ call.query = <<"f","i","n","d"," ","c","u","s","t","o","m","e","r","s"," ","w","h","e","r","e"," ","i","d"," ","="," ","5">>
  /\ unresolved(1, call.query)
  /\ call.sql = NoTableError

\* the keyword groups in the order of their priority
KeywordGroups ==
  << [keywords |-> CountKeywords, type |-> "aggregation", intent |-> "count_records"],
     [keywords |-> AverageKeywords, type |-> "aggregation", intent |-> "calculate_average"],
     [keywords |-> SumKeywords, type |-> "aggregation", intent |-> "sum_values"],
     [keywords |-> RetrievalKeywords, type |-> "retrieval", intent |-> "retrieve_data"],
     [keywords |-> FilterKeywords, type |-> "filtered_retrieval", intent |-> "search_data"] >>

\* C7: analyze_user_query_context gives the type and the intent of the first group,
\* in the order count, average, sum, retrieval, filter, that has a keyword in the
\* lower-cased text, and type unknown without intent when no group has one.
C7_FirstMatchingGroupWins ==
  call.op = "analyze_user_query_context" =>
    LET text == lower(call.query)
        matching == {g \in 1..Len(KeywordGroups) :
                       \E k \in 1..Len(KeywordGroups[g].keywords) :
                         Contains(KeywordGroups[g].keywords[k], text)}
    IN IF matching = {}
         THEN /\ call.context.query_type = "unknown"
              /\ call.context.query_intent = <<>>
         ELSE /\ call.context.query_type = KeywordGroups[least(matching)].type
              /\ call.context.query_intent = <<KeywordGroups[least(matching)].intent>>

\* "total number of active users" has a count keyword and a sum keyword and is
\* classified count_records
C7_Witness ==
  /\ call.op = "analyze_user_query_context"
  /\ call.query = <<"t","o","t","a","l"," ","n","u","m","b","e","r"," ","o","f"," ","a","c","t","i","v","e"," ","u","s","e","r","s">>
  /\ Contains(<<"t","o","t","a","l"," ","n","u","m","b","e","r">>, call.query)
  /\ Contains(<<"t","o","t","a","l">>, call.query)
  /\ call.context.query_type = "aggregation"
  /\ call.context.query_intent = <<"count_records">>

\* the first line of a text
first_line(text) == SubSeq(text, 1, RunEndNot(text, 1, {"\n"}))

\* whether a row limit is to be applied to a parsed query
limited(parsed) ==
  /\ parsed.limit # <<>>
  /\ parsed.limit[1] > 0
  /\ parsed.aggregations # <<<<"C","O","U","N","T">>>>

\* the select list the rules give for a parsed query
expected_select_list(parsed) ==
  IF parsed.aggregations = <<<<"C","O","U","N","T">>>> THEN <<"C","O","U","N","T","(","*",")">>
  ELSE IF parsed.aggregations # <<>> /\ parsed.columns # <<>>
    THEN parsed.aggregations[1] \o <<"(">> \o parsed.columns[1] \o <<")">>
  ELSE IF parsed.aggregations # <<>> THEN parsed.aggregations[1] \o <<"(","*",")">>
  ELSE IF parsed.columns # <<>> THEN join(<<","," ">>, parsed.columns)
  ELSE <<"*">>

\* the SELECT keyword and the row-limit modifier a parsed query is to get
expected_select_head(parsed) ==
  IF limited(parsed) THEN <<"S","E","L","E","C","T"," ","T","O","P"," ">> \o str_int(parsed.limit[1]) \o <<" ">>
  ELSE <<"S","E","L","E","C","T"," ">>

\* C9: for a parsed query with a table, the select list of the SQL, which is what
\* follows SELECT and its row-limit modifier on the first line, is COUNT(*) for
\* COUNT, else AGG(first column), else AGG(*), else the comma-joined columns,
\* else *.
C9_SelectListRendering ==
  (call.op = "build_sql_query" /\ call.parsed.table # <<>>) =>
    first_line(call.sql) = expected_select_head(call.parsed) \o expected_select_list(call.parsed)

\* the number of places a text occurs at in another
occurrences(sub, text) == Cardinality({i \in 1..Len(text) : StartsAt(text, i, sub)})

\* C10: with a positive limit and an aggregation other than COUNT the SELECT line
\* has exactly one TOP N, directly after SELECT, and is otherwise the SELECT line
\* of the same query without limit; in every other case the SQL has no TOP.
C10_TopModifier ==
  (call.op = "build_sql_query" /\ call.parsed.table # <<>>) =>
    LET unlimited == first_line(build_sql_query([call.parsed EXCEPT !.limit = <<>>]))
    IN IF limited(call.parsed)
         THEN /\ first_line(call.sql)
                   = <<"S","E","L","E","C","T"," ","T","O","P"," ">> \o str_int(call.parsed.limit[1])
                       \o SubSeq(unlimited, Len(<<"S","E","L","E","C","T">>) + 1, Len(unlimited))
              /\ occurrences(<<"T","O","P"," ">>, call.sql) = 1
         ELSE occurrences(<<"T","O","P"," ">>, call.sql) = 0


\* the statistics records of a table of analyzer a, <<>> without an entry
profiled_columns(a, table_key) ==
  IF dict_has(table_stats[a], table_key)
    THEN dict_get(table_stats[a], table_key).column_analysis
    ELSE <<>>

\* the elements of a sequence
elements(seq) == {seq[i] : i \in 1..Len(seq)}

\* C11: identify_primary_key_candidates returns a profiled column iff its
\* uniqueness_ratio is at least 0.95, its null_percentage is below 5.0 and its
\* type is int, bigint, uniqueidentifier, varchar or nvarchar; every qualifying
\* column is reported, once, in column order.  So a column of ratio 0.9499 is
\* left out, one of ratio 0.95 with 4.99 % nulls is reported, and so is an int
\* column with total = non-null = distinct = 1000.
C11_PrimaryKeyCandidates ==
  call.op = "identify_primary_key_candidates" =>
    LET cols == profiled_columns(call.analyzer, call.table_key)
        qualifies(i) ==
          /\ cols[i][2].uniqueness_ratio >= 9500
          /\ cols[i][2].null_percentage < 500
          /\ cols[i][2].type \in {<<"i","n","t">>, <<"b","i","g","i","n","t">>, <<"u","n","i","q","u","e","i","d","e","n","t","i","f","i","e","r">>, <<"v","a","r","c","h","a","r">>,
                                  <<"n","v","a","r","c","h","a","r">>}
    IN /\ \A i \in 1..Len(cols) : (cols[i][1] \in elements(call.candidates)) <=> qualifies(i)
       /\ elements(call.candidates) \subseteq {cols[i][1] : i \in 1..Len(cols)}
       /\ Len(call.candidates) = Cardinality(elements(call.candidates))
       /\ \A i \in 1..Len(cols) :
            /\ cols[i][2].uniqueness_ratio = 9499 => cols[i][1] \notin elements(call.candidates)
            /\ (/\ cols[i][2].uniqueness_ratio = 9500
                /\ cols[i][2].null_percentage = 499
                /\ cols[i][2].type = <<"v","a","r","c","h","a","r">>)
                 => cols[i][1] \in elements(call.candidates)
            /\ (/\ cols[i][2].total_count = 1000
                /\ cols[i][2].non_null_count = 1000
                /\ cols[i][2].unique_count = 1000
                /\ cols[i][2].type = <<"i","n","t">>)
                 => cols[i][1] \in elements(call.candidates)

\* two qualifying columns of dbo.orders, one of them of ratio 0.95 with 4.99 %
\* nulls, are both reported
C11_Witness ==
  /\ call.op = "identify_primary_key_candidates"
  /\ call.table_key = <<"d","b","o",".","o","r","d","e","r","s">>
  /\ call.candidates = <<<<"c","o","d","e">>, <<"u","s","e","r","_","i","d">>>>
  /\ LET cols == profiled_columns(call.analyzer, call.table_key)
     IN /\ cols[1][2].uniqueness_ratio = 9500
        /\ cols[1][2].null_percentage = 499

\* C12: the list identify_foreign_key_candidates returns never has a column
\* named id or rowid in any letter case, and has only columns of type int or
\* bigint whose lower-cased name ends with "id".
C12_ForeignKeyCandidates ==
  call.op = "identify_foreign_key_candidates" =>
    LET cols == profiled_columns(call.analyzer, call.table_key)
    IN \A k \in 1..Len(call.candidates) :
         LET name == call.candidates[k].column
         IN /\ lower(name) \notin {<<"i","d">>, <<"r","o","w","i","d">>}
            /\ EndsWith(lower(name), <<"i","d">>)
            /\ dict_has(cols, name)
            /\ dict_get(cols, name).type \in {<<"i","n","t">>, <<"b","i","g","i","n","t">>}

\* a bigint column UserID of dbo.orders is reported, with dbo.users as the table
\* it may reference
C12_Witness ==
  /\ call.op = "identify_foreign_key_candidates"
  /\ call.table_key = <<"d","b","o",".","o","r","d","e","r","s">>
  /\ LET cols == profiled_columns(call.analyzer, call.table_key)
     IN /\ Len(cols) = 2
        /\ cols[2][1] = <<"U","s","e","r","I","D">>
        /\ cols[2][2].type = <<"b","i","g","i","n","t">>
  /\ call.candidates = <<[column |-> <<"U","s","e","r","I","D">>, potential_references |-> <<<<"d","b","o",".","u","s","e","r","s">>>>]>>

\* C13: for every table in the catalog that has no column statistics,
\* calculate_data_quality_score returns the neutral default 0.5, whether the
\* catalog was built from a database or loaded from a snapshot.
C13_NeutralDefaultScore ==
  \A a \in Analyzers :
    \A i \in 1..Len(filtered_tables[a]) :
      profiled_columns(a, filtered_tables[a][i][1]) = <<>>
        => calculate_data_quality_score(a, filtered_tables[a][i][1]) = 500

\* whether the call in hand is a build
build_in_hand == call.op = "load_and_filter_schema"

\* the database without the tables of the given keys
RECURSIVE without_tables(_, _, _)
without_tables(db, i, keys) ==
  IF i > Len(db)
    THEN <<>>
    ELSE (IF table_key_of(db[i]) \in keys THEN <<>> ELSE <<db[i]>>)
           \o without_tables(db, i + 1, keys)

\* how often x occurs in seq
count_in(seq, x) == Cardinality({i \in 1..Len(seq) : seq[i] = x})

\* C14: a failing row-count query counts as zero rows: the table is dropped,
\* the build ends, every table of the schema has its count query sent exactly
\* once, and the other tables are filtered and profiled as if the failure had
\* not happened.
C14_CountFailureDropsTable ==
  (build_in_hand /\ \A q \in call.faults : q[1] = "count") =>
    LET a == call.analyzer
        failed == {q[2] : q \in call.faults}
        rest == without_tables(call.db, 1, failed)
        expected == _filter_and_analyze_tables(rest, 1, call.min_rows, NoFaults,
                      [table_columns |-> <<>>, filtered_tables |-> <<>>,
                       table_stats |-> <<>>, queries |-> <<>>])
    IN /\ \A key \in failed :
            /\ ~dict_has(filtered_tables[a], key)
            /\ ~dict_has(table_columns[a], key)
            /\ ~dict_has(table_stats[a], key)
       /\ \A i \in 1..Len(call.db) : count_in(call.queries, count_query(call.db[i])) = 1
       /\ filtered_tables[a] = expected.filtered_tables
       /\ table_columns[a] = expected.table_columns
       /\ table_stats[a] = expected.table_stats

\* the count of dbo.orders (5000 rows) fails: dbo.users is kept and profiled
C14_Witness ==
  /\ build_in_hand
  /\ call.db = DbA
  /\ call.min_rows = 1
  /\ call.faults = {<<"count", <<"d","b","o",".","o","r","d","e","r","s">>, <<>>>>}
  /\ dict_keys(filtered_tables[call.analyzer]) = <<<<"d","b","o",".","u","s","e","r","s">>>>
  /\ Len(profiled_columns(call.analyzer, <<"d","b","o",".","u","s","e","r","s">>)) = 3

\* the queries of a build that profile the columns of a table
profiling_queries(queries, key) ==
  {i \in 1..Len(queries) : queries[i][1] \in {"stats", "extended"} /\ queries[i][2] = key}

\* C15: a retained table is profiled iff it has at most 10000 rows: up to 10000
\* rows (10000 included) analyze_column_data runs on its columns; above, no
\* per-column query is sent and column_analysis is empty, while the table stays
\* in the catalog with its row count and columns.
C15_ProfiledUpToCeiling ==
  build_in_hand =>
    LET a == call.analyzer
    IN \A i \in 1..Len(call.db) :
         LET t == call.db[i]
             key == table_key_of(t)
         IN dict_has(filtered_tables[a], key) =>
              /\ dict_get(filtered_tables[a], key).row_count = t.rows
              /\ dict_get(filtered_tables[a], key).columns = column_info(t)
              /\ dict_get(table_columns[a], key) = column_info(t)
              /\ dict_get(table_stats[a], key).row_count = t.rows
              /\ t.rows <= 10000 =>
                   /\ stats_query(t, t.columns[1]) \in elements(call.queries)
                   /\ call.faults = NoFaults =>
                        dict_keys(profiled_columns(a, key))
                          = [j \in 1..Len(t.columns) |-> t.columns[j].name]
              /\ t.rows > 10000 =>
                   /\ profiling_queries(call.queries, key) = {}
                   /\ profiled_columns(a, key) = <<>>

\* Sales.Items has 10000 rows and is profiled, dbo.audit_log has 10001 and is not
C15_Witness ==
  /\ build_in_hand
  /\ call.db = DbB
  /\ call.faults = NoFaults
  /\ dict_keys(filtered_tables[call.analyzer]) = <<<<"S","a","l","e","s",".","I","t","e","m","s">>, <<"d","b","o",".","a","u","d","i","t","_","l","o","g">>>>
  /\ Len(profiled_columns(call.analyzer, <<"S","a","l","e","s",".","I","t","e","m","s">>)) = 2
  /\ profiled_columns(call.analyzer, <<"d","b","o",".","a","u","d","i","t","_","l","o","g">>) = <<>>
  /\ profiling_queries(call.queries, <<"d","b","o",".","a","u","d","i","t","_","l","o","g">>) = {}

\* C16: when export_database_metadata fails while writing, it returns null and
\* the path holds what it held before or a complete snapshot, never a truncated
\* document.
C16_NoPartialSnapshot ==
  (call.op = "export_database_metadata" /\ call.returned = <<>>) =>
    \/ files[call.filename] = call.before
    \/ readable(call.filename)

\* the translations of a request by parser p over the catalog as it is
translations(p, natural_query) ==
  {parse_natural_language(p, natural_query, suggested) :
     suggested \in suggestion_lists(suggested_set(p, strip(lower(natural_query))))}

\* C17: a translation leaves schema_info, table_columns, filtered_tables and
\* table_stats as they were, and its result is a translation of the request
\* over the catalog alone, whatever was translated before.
C17_TranslationReadsOnly ==
  [][(call' # call /\ call'.op \in {"natural_query_to_sql", "natural_query_to_dataframe"})
       => /\ UNCHANGED <<schema_info, table_columns, filtered_tables, table_stats>>
          /\ call'.parsed \in translations(call'.parser, call'.query)
          /\ call'.sql = build_sql_query(call'.parsed)]_vars

\* a request translated against a built catalog, which is still as built
C17_Witness ==
  /\ translated_by(1)
  /\ built_once(1)
  /\ call.sql = join(<<"\n">>, <<<<"S","E","L","E","C","T"," ","n","a","m","e">>, <<"F","R","O","M"," ","d","b","o",".","u","s","e","r","s">>, <<"W","H","E","R","E"," ","i","d"," ",">"," ","1","8">>,
                                  <<"O","R","D","E","R"," ","B","Y"," ","n","a","m","e"," ","D","E","S","C">>>>)
  /\ dict_keys(schema_info[1]) = <<<<"e","m","p","t","y">>, <<"o","r","d","e","r","s">>, <<"u","s","e","r","s">>>>

\* the catalog a parser looks tables up in: simple name -> table key, in
\* iteration order
lookup_names(p) == IF p \in Analyzers THEN schema_info[p] ELSE <<>>

\* the three ways a table name matches a hint
matches_exactly(name, hint) == name = hint
matches_partially(name, hint) == Contains(hint, name) \/ Contains(name, hint)
matches_a_word(name, hint) == \E w \in elements(split(hint)) : Contains(w, name)

\* C18: find_table_by_name resolves in three stages.  A table whose lower-case
\* simple name equals the hint wins, wherever it is in the catalog; otherwise
\* the first table in catalog order whose name contains the hint or is
\* contained in it; otherwise the first table whose name contains a word of
\* the hint; a hint that matches by none of the three yields null.
C18_LookupStages ==
  call.op = "find_table_by_name" =>
    LET names == lookup_names(call.parser)
        hint == strip(lower(call.table_hint))
        n == Len(names)
        exact == \E i \in 1..n : matches_exactly(names[i][1], hint)
        partial == \E i \in 1..n : matches_partially(names[i][1], hint)
        word == \E i \in 1..n : matches_a_word(names[i][1], hint)
    IN /\ exact =>
            \E i \in 1..n : matches_exactly(names[i][1], hint) /\ call.table = names[i][2]
       /\ (~exact /\ partial) =>
            \E i \in 1..n :
              /\ matches_partially(names[i][1], hint)
              /\ \A j \in 1..(i - 1) : ~matches_partially(names[j][1], hint)
              /\ call.table = names[i][2]
       /\ (~exact /\ ~partial /\ word) =>
            \E i \in 1..n :
              /\ matches_a_word(names[i][1], hint)
              /\ \A j \in 1..(i - 1) : ~matches_a_word(names[j][1], hint)
              /\ call.table = names[i][2]
       /\ (~exact /\ ~partial /\ ~word) => call.table = <<>>

\* "users" names dbo.users although dbo.all_users contains it and comes first
C18_Witness ==
  /\ call.op = "find_table_by_name"
  /\ call.table_hint = <<" ","U","s","e","r","s"," ">>
  /\ dict_keys(lookup_names(call.parser)) = <<<<"a","l","l","_","u","s","e","r","s">>, <<"o","r","d","e","r","s">>, <<"u","s","e","r","s">>>>
  /\ call.table = <<"d","b","o",".","u","s","e","r","s">>

\* C19: a failing base-statistics query of one column stays with that column:
\* every other column of the table, before and after it, gets its statistics
\* record, and the other tables are profiled as without the failure.
C19_ColumnFailureIsolated ==
  build_in_hand =>
    LET a == call.analyzer
    IN \A i \in 1..Len(call.db) :
         LET t == call.db[i]
             key == table_key_of(t)
         IN (dict_has(filtered_tables[a], key) /\ t.rows <= 10000) =>
              \A j \in 1..Len(t.columns) :
                stats_query(t, t.columns[j]) \notin call.faults
                  => dict_has(profiled_columns(a, key), t.columns[j].name)

\* the five base statistics of a record
base_statistics(record) ==
  <<record.total_count, record.non_null_count, record.unique_count,
    record.null_percentage, record.uniqueness_ratio>>

\* C20: when the type-specific query of a column fails, the other columns of
\* the table are still profiled and the failing column keeps its base
\* statistics, in both copies of analyze_column_data.
C20_ExtendedFailureIsolated ==
  (call.op = "analyze_column_data" /\ \A q \in call.faults : q[1] = "extended") =>
    \A j \in 1..Len(call.table.columns) :
      LET c == call.table.columns[j]
      IN /\ dict_has(call.analysis, c.name)
         /\ base_statistics(dict_get(call.analysis, c.name))
              = base_statistics(column_stats(call.table, c))


\* the lower-cased column name without its trailing "_id" or "id"
stem_of(col_name) ==
  LET name == lower(col_name)
  IN IF EndsWith(name, <<"_","i","d">>) THEN SubSeq(name, 1, Len(name) - 3)
     ELSE IF EndsWith(name, <<"i","d">>) THEN SubSeq(name, 1, Len(name) - 2)
     ELSE name

\* the first n elements of a sequence, all of them when it is shorter
first_of(seq, n) == SubSeq(seq, 1, IF Len(seq) < n THEN Len(seq) ELSE n)

\* C21: for every qualifying foreign-key column, the reported target tables are
\* the first up to 3 retained tables, in catalog order, whose simple name
\* contains the column name's stem (the lower-cased name with only the trailing
\* "_id" or "id" removed); a column without a matching table has no entry, so
\* every entry lists between 1 and 3 tables.
C21_ForeignKeyTargets ==
  call.op = "identify_foreign_key_candidates" =>
    LET a == call.analyzer
        cols == profiled_columns(a, call.table_key)
        targets(name) == first_of(matching_tables(a, stem_of(name)), 3)
        reported == {call.candidates[k].column : k \in 1..Len(call.candidates)}
    IN /\ \A i \in 1..Len(cols) :
            is_foreign_key_column(cols[i][1], cols[i][2]) =>
              IF targets(cols[i][1]) = <<>>
                THEN cols[i][1] \notin reported
                ELSE \E k \in 1..Len(call.candidates) :
                       /\ call.candidates[k].column = cols[i][1]
                       /\ call.candidates[k].potential_references = targets(cols[i][1])
       /\ \A k \in 1..Len(call.candidates) :
            Len(call.candidates[k].potential_references) \in 1..3

\* the whitespace-delimited tokens of the lower-cased request
tokens_of(natural_query) == elements(split(lower(natural_query)))

\* C22: complexity is the number of distinct words among where, and, or, join,
\* group, order, having that are tokens of the lower-cased, whitespace-tokenized
\* request: 3 or more gives complex, 1 or 2 moderate, 0 simple; a word that only
\* occurs inside a longer token ("or" in "orders", "and" in "brand") is not
\* counted.
C22_ComplexityCountsTokens ==
  call.op = "analyze_user_query_context" =>
    LET indicators == Cardinality({i \in 1..Len(ComplexityWords) :
                                     ComplexityWords[i] \in tokens_of(call.query)})
    IN call.context.complexity =
         IF indicators >= 3 THEN "complex"
         ELSE IF indicators >= 1 THEN "moderate"
         ELSE "simple"

\* whether a keyword of one or more words occurs in the text as whole words
occurs_as_word(keyword, natural_query) ==
  Contains(<<" ">> \o keyword \o <<" ">>,
           <<" ">> \o join(<<" ">>, split(lower(natural_query))) \o <<" ">>)

\* whether some keyword of the list occurs in the text as whole words
any_word(keywords, natural_query) ==
  \E k \in 1..Len(keywords) : occurs_as_word(keywords[k], natural_query)

\* C23: a request that has a filter keyword (find, search, where) as a word and
\* none of the count, average, sum or retrieval keywords as a word is classified
\* filtered_retrieval with intent search_data, whatever its other words are.
C23_FilterRequestClassified ==
  (/\ call.op = "analyze_user_query_context"
   /\ any_word(FilterKeywords, call.query)
   /\ ~any_word(CountKeywords, call.query)
   /\ ~any_word(AverageKeywords, call.query)
   /\ ~any_word(SumKeywords, call.query)
   /\ ~any_word(RetrievalKeywords, call.query))
    => /\ call.context.query_type = "filtered_retrieval"
       /\ call.context.query_intent = <<"search_data">>

\* whether a table key is that of a table the one build of analyzer a kept
kept_by_build(a, key) ==
  \E i \in 1..Len(builds[a][1].db) :
    /\ table_key_of(builds[a][1].db[i]) = key
    /\ builds[a][1].db[i].rows >= builds[a][1].min_rows

\* C24: for every request and catalog, suggested_tables has no duplicates and at
\* most 5 entries, and every entry is the key of a retained table whose simple
\* name contains some whitespace-delimited token of the lower-cased request.
C24_SuggestedTables ==
  call.op = "analyze_user_query_context" =>
    LET suggested == call.context.suggested_tables
    IN /\ Len(suggested) = Cardinality(elements(suggested))
       /\ Len(suggested) <= 5
       /\ \A k \in 1..Len(suggested) :
            /\ has_analyzer(call.parser)
            /\ suggested[k] \in retained(call.parser)
            /\ built_once(call.parser) => kept_by_build(call.parser, suggested[k])
            /\ \E token \in tokens_of(call.query) :
                 Contains(token, simple_name(suggested[k]))

\* "show s" on a catalog of six retained tables whose names all contain "s":
\* five of them are suggested, dbo.videos first
C24_Witness ==
  /\ call.op = "analyze_user_query_context"
  /\ call.query = <<"s","h","o","w"," ","s">>
  /\ has_analyzer(call.parser)
  /\ Cardinality(retained(call.parser)) = 6
  /\ Len(call.context.suggested_tables) = 5
  /\ call.context.suggested_tables[1] = <<"d","b","o",".","v","i","d","e","o","s">>

\* the column a hint is to resolve to among the columns of a table: the first
\* whose lower-cased name equals the hint, else the first whose lower-cased
\* name contains the hint or is contained in it; <<name>>, or <<>> for none
column_for_hint(columns, column_hint) ==
  LET hint == strip(lower(column_hint))
      exact == {i \in 1..Len(columns) : lower(columns[i].name) = hint}
      partial == {i \in 1..Len(columns) :
                    \/ Contains(hint, lower(columns[i].name))
                    \/ Contains(lower(columns[i].name), hint)}
  IN IF exact # {} THEN <<columns[least(exact)].name>>
     ELSE IF partial # {} THEN <<columns[least(partial)].name>>
     ELSE <<>>

\* the concatenation of the sequences of a sequence
RECURSIVE flatten(_)
flatten(seqs) == IF seqs = <<>> THEN <<>> ELSE Head(seqs) \o flatten(Tail(seqs))

\* C25: find_columns_by_hint returns, in hint order, one column per hint that
\* matches and nothing for a hint that does not: an exact case-insensitive match
\* is preferred over any substring match, otherwise the first column in ordinal
\* order that contains the hint or is contained in it is taken; the output is
\* never longer than the input, every element is a column name of the table,
\* and for an unknown table the output is empty.
C25_ColumnsByHint ==
  call.op = "find_columns_by_hint" =>
    IF ~has_analyzer(call.parser) \/ ~dict_has(table_columns[call.parser], call.table_name)
      THEN call.columns = <<>>
      ELSE
        LET columns == dict_get(table_columns[call.parser], call.table_name)
            hints == call.column_hints
        IN /\ call.columns =
                flatten([k \in 1..Len(hints) |-> column_for_hint(columns, hints[k])])
           /\ Len(call.columns) <= Len(hints)
           /\ \A k \in 1..Len(call.columns) :
                \E i \in 1..Len(columns) :
                  /\ columns[i].name = call.columns[k]
                  /\ columns[i].position = i

\* "zzz" matches nothing and "name" resolves to Name, the third column, though
\* user_name, the second, contains it
C25_Witness ==
  /\ call.op = "find_columns_by_hint"
  /\ call.table_name = <<"d","b","o",".","u","s","e","r","s">>
  /\ call.column_hints = <<<<"z","z","z">>, <<"n","a","m","e">>>>
  /\ call.columns = <<<<"N","a","m","e">>>>

\* the predicates one pattern is to give for its matches: for each match whose
\* left-hand token resolves to a column, the column name, the operator and the
\* literal as matched
expected_conditions(p, table_name, pattern, matches) ==
  flatten([k \in 1..Len(matches) |->
             LET column == find_columns_by_hint(p, table_name, <<matches[k].hint>>)
             IN IF column = <<>>
                  THEN <<>>
                  ELSE <<column[1] \o pattern.before \o matches[k].literal \o pattern.after>>])

\* C26: parse_conditions emits a predicate for a pattern match iff the captured
\* left-hand token resolves to a column of the target table, and the predicate is
\* the matched shape with the real column name in place of the raw hint and the
\* operator and the literal exactly as matched: the substitution changes nothing
\* but the left-hand token.
C26_ConditionSubstitution ==
  call.op = "parse_conditions" =>
    call.conditions =
      flatten([k \in 1..Len(ConditionPatterns) |->
                 expected_conditions(call.parser, call.table_name, ConditionPatterns[k],
                                     condition_matches(call.condition_text,
                                                       ConditionPatterns[k].op,
                                                       ConditionPatterns[k].is_keyword,
                                                       ConditionPatterns[k].quoted))])

\* C27: every ParsedQuery of parse_natural_language has a limit that is absent
\* or a positive integer; no request gives limit 0 or a negative limit.
C27_LimitPositive ==
  call.op = "parse_natural_language" =>
    \/ call.parsed.limit = <<>>
    \/ call.parsed.limit[1] > 0

\* the retained tables of parser p whose simple name is a word of the request
tables_named(p, natural_query) ==
  {key \in retained(p) : simple_name(key) \in tokens_of(natural_query)}

\* C28: when exactly one retained table's simple name occurs as a word of the
\* request, parse_natural_language resolves the table to that table's key,
\* whatever other tables the catalog holds and whatever the other words are.
C28_NamedTableResolved ==
  (/\ call.op = "parse_natural_language"
   /\ has_analyzer(call.parser)
   /\ Cardinality(tables_named(call.parser, call.query)) = 1)
    => call.parsed.table \in tables_named(call.parser, call.query)

\* C30: in every snapshot export_database_metadata wrote, after any sequence of
\* builds and snapshot loads on the catalog, database_info.total_tables is the
\* number of entries under tables and database_info.total_rows is the sum of
\* their row_count fields.
C30_SnapshotTotals ==
  \A f \in Files :
    exported[f] # <<>> =>
      LET doc == json_load(files[f][1])
      IN /\ doc.database_info.total_tables = Len(doc.tables)
         /\ doc.database_info.total_rows =
              sum_to([i \in 1..Len(doc.tables) |-> doc.tables[i][2].row_count],
                     Len(doc.tables))

\* C29: when load_metadata_from_json returns False, the analyzer's
\* filtered_tables, table_columns and schema_info are as they were before the
\* call: a failed load leaves none of the snapshot's tables in the catalog.
C29_FailedLoadLeavesCatalog ==
  (call.op = "load_metadata_from_json" /\ ~call.returned) =>
    /\ filtered_tables[call.analyzer] = call.before.filtered_tables
    /\ table_columns[call.analyzer] = call.before.table_columns
    /\ schema_info[call.analyzer] = call.before.schema_info
====
